---- MODULE Spec2Model ----
(***************************************************************************)
(* Session orchestration of the IMAP MCP server (src/src/server.mjs).      *)
(*                                                                         *)
(* Every tool handler is an async function: it creates its own Imap        *)
(* object, awaits connect, select and one or more commands, calls          *)
(* imap.end() and returns a report.  A handler runs from one await to the  *)
(* next without interruption, so one step of the model is one such         *)
(* segment: the arrival of the response to the pending command, followed   *)
(* by everything the handler does until it issues the next command or      *)
(* returns.                                                                *)
(***************************************************************************)
EXTENDS Integers, Sequences, FiniteSets, TLC

VARIABLES
  op,        \* the calls: one record per caller
  crashed,   \* the process has ended on an uncaught exception
  config,    \* config.accounts, as loaded from the environment
  apiKey,    \* config.apiKey, as loaded from the environment
  listing,   \* the last response of a route or tool that lists accounts
  other,     \* a second run of the server: its config.accounts and response
  auth,      \* rate-limit.mjs: process.env, the apiKeys map, the last request
  boxes,     \* the folder tree imap.getBoxes has built so far
  folders,   \* the result of flattenMailboxes(boxes)
  store,     \* the mailboxes of the IMAP server
  before,    \* the mailboxes as they were when the call in progress began
  last,      \* the call that ended before the one in progress
  heap,      \* the Imap objects created so far
  started    \* the number of calls begun so far

registry == <<config, apiKey, listing, other, auth>>
tree == <<boxes, folders>>
mail == <<store, before, last>>
net == <<heap, started>>

(* what the tool handlers leave alone *)
aux == <<registry, tree, mail, net>>

vars == <<op, crashed, aux>>

----------------------------------------------------------------------------
(* Bounds of the model *)

MaxUid == 2          \* UIDs are 1..MaxUid in the small environment
MaxLen == 2          \* longest uid list a caller passes in the small environment
MaxFound == 2        \* longest search result the server returns
MaxLimit == 2        \* largest limit passed to imap_list_emails

(* The documented cap on a bulk call *)
MaxBulkItems == 100

(* the calls in progress: every call has its own handler invocation *)
Callers == {"c1"}

None == "none"

Uids == 1..MaxUid

(* all sequences over S of length at most n *)
SeqsUpTo(S, n) == UNION {[1..k -> S] : k \in 0..n}

(* fault messages the library can hand to a callback or an error event *)
Msgs == {"ECONNRESET", "NO"}

----------------------------------------------------------------------------
(* config.accounts: a sample environment.  onecom is fully configured, gmx *)
(* lacks the password, gmail lacks the user; any other key is unknown.     *)

accounts ==
  [onecom |-> [user |-> "u1", password |-> "p1"],
   gmx    |-> [user |-> "u2", password |-> ""],
   gmail  |-> [user |-> "",   password |-> "p3"]]

AccountKeys == {"onecom", "gmx", "gmail", "nokey"}

(* process.env values: a variable can be unset or set to the empty string; *)
(* both are falsy                                                          *)
Undefined == "undefined"
Truthy(v) == v \notin {Undefined, ""}

(* Object.entries(config.accounts) lists the keys in this order *)
ConfigKeys == <<"onecom", "gmx", "gmail">>

(* every environment: each credential unset, empty or set *)
Configs ==
  [{ConfigKeys[i] : i \in DOMAIN ConfigKeys} ->
     [user : {Undefined, "", "u"}, password : {Undefined, "", "p", "q"}]]

Throw == "throw"
NotConfigured == "not configured"
NotFound == "not found"

(* createImapConnection: throws for an unknown key or a key missing its   *)
(* user or password, otherwise returns a new, unconnected Imap object.     *)
createImapConnection(accountKey) ==
  IF \/ accountKey \notin DOMAIN config
     \/ ~Truthy(config[accountKey].user)
     \/ ~Truthy(config[accountKey].password)
  THEN Throw
  ELSE "Imap"

(* the entries of accs with both credentials, each as {key, ...acc} *)
configured(accs) ==
  LET keys == SelectSeq(ConfigKeys,
                 LAMBDA k : Truthy(accs[k].user) /\ Truthy(accs[k].password))
  IN  [i \in DOMAIN keys |->
         [key |-> keys[i], user |-> accs[keys[i]].user,
          password |-> accs[keys[i]].password]]

(* a filter that looks at the user only *)
getConfiguredAccounts_userOnly ==
  LET keys == SelectSeq(ConfigKeys, LAMBDA k : Truthy(config[k].user))
  IN  [i \in DOMAIN keys |->
         [key |-> keys[i], user |-> config[keys[i]].user,
          password |-> config[keys[i]].password]]

(* getConfiguredAccounts: Object.entries(config.accounts), filtered and    *)
(* mapped                                                                  *)
getConfiguredAccounts == configured(config)

NoListing == [route |-> None, accounts |-> <<>>]

(* a response that passes the account objects on as they are *)
respond_spread(route, list) == [route |-> route, accounts |-> list]

(* the response of a route to the list of configured accounts: key, name,  *)
(* host and user of each for the imap_list_accounts tool and GET /accounts, *)
(* the keys for GET /version                                                *)
respond(route, list) ==
  [route |-> route,
   accounts |-> [i \in DOMAIN list |->
                   IF route = "/version" THEN [key |-> list[i].key]
                   ELSE [key |-> list[i].key, user |-> list[i].user]]]

imap_list_accounts == respond("imap_list_accounts", getConfiguredAccounts)

get_accounts == respond("/accounts", getConfiguredAccounts)

get_version == respond("/version", getConfiguredAccounts)

(* no second run *)
NoOther == [config |-> <<>>, listing |-> NoListing]

----------------------------------------------------------------------------
(* rate-limit.mjs: the API keys of the environment and the middleware that *)
(* checks a request against them.  A string is the sequence of its         *)
(* characters; a JavaScript value is its type with its characters (for an  *)
(* array of one-character strings: its elements).                          *)

MaxChars == 4

Chars == {"k", "a", ":", ",", " "}

Strings == UNION {[1..n -> Chars] : n \in 0..MaxChars}

Str(cs) == [t |-> "string", s |-> cs]
Undef == [t |-> "undefined", s |-> <<>>]
Arr(cs) == [t |-> "array", s |-> cs]

(* the truthiness of a value: undefined and "" are falsy, an array is not *)
ToBoolean(v) == v.t = "array" \/ (v.t = "string" /\ v.s # <<>>)

(* String.prototype.split(sep) for a separator of one character *)
RECURSIVE split(_, _)
split(cs, sep) ==
  IF \A i \in DOMAIN cs : cs[i] # sep THEN <<cs>>
  ELSE LET i == CHOOSE j \in DOMAIN cs :
                  cs[j] = sep /\ \A h \in 1..(j - 1) : cs[h] # sep
       IN  <<SubSeq(cs, 1, i - 1)>> \o split(SubSeq(cs, i + 1, Len(cs)), sep)

(* String.prototype.trim() *)
RECURSIVE trim(_)
trim(cs) ==
  IF cs = <<>> THEN cs
  ELSE IF cs[1] = " " THEN trim(Tail(cs))
  ELSE IF cs[Len(cs)] = " " THEN trim(SubSeq(cs, 1, Len(cs) - 1))
  ELSE cs

(* a Map as the sequence of its entries in insertion order *)
Map_has(m, k) == \E i \in DOMAIN m : m[i].key = k
Map_get(m, k) ==
  IF Map_has(m, k) THEN Str((CHOOSE e \in {m[i] : i \in DOMAIN m} : e.key = k).user)
  ELSE Undef
Map_set(m, k, v) ==
  IF Map_has(m, k)
  THEN [i \in DOMAIN m |-> IF m[i].key = k THEN [key |-> k, user |-> v] ELSE m[i]]
  ELSE Append(m, [key |-> k, user |-> v])

anonymous == <<"anonymous">>
admin == <<"admin">>
devMode == <<"dev-mode">>

(* the forEach of parseApiKeys over the entries from entry i on *)
RECURSIVE parseApiKeys_forEach(_, _, _)
parseApiKeys_forEach(keys, entries, i) ==
  IF i > Len(entries) THEN keys
  ELSE LET parts == split(trim(entries[i]), ":")
           key == parts[1]
           user == IF Len(parts) >= 2 THEN Str(parts[2]) ELSE Undef
       IN  parseApiKeys_forEach(
             IF key # <<>>
             THEN Map_set(keys, key, IF ToBoolean(user) THEN user.s ELSE anonymous)
             ELSE keys,
             entries, i + 1)

(* parseApiKeys: the keys of MCP_API_KEYS with their users, and the key of *)
(* MCP_API_KEY as admin unless it is among them                            *)
parseApiKeys ==
  LET multiKeys == auth.env.MCP_API_KEYS
      singleKey == auth.env.MCP_API_KEY
      keys == IF ToBoolean(multiKeys)
              THEN parseApiKeys_forEach(<<>>, split(multiKeys.s, ","), 1)
              ELSE <<>>
  IN  IF ToBoolean(singleKey) /\ ~Map_has(keys, singleKey.s)
      THEN Map_set(keys, singleKey.s, admin)
      ELSE keys

(* what requireApiKey does with a request: calls next, answers with a      *)
(* status, or throws                                                       *)
NoOutcome == [next |-> FALSE, status |-> 0, message |-> None, apiUser |-> Undef,
              thrown |-> FALSE]

(* requireApiKey(req, res, next) *)
requireApiKey(req) ==
  IF Len(auth.apiKeys) = 0
  THEN [NoOutcome EXCEPT !.apiUser = Str(devMode), !.next = TRUE]
  ELSE LET got == IF ToBoolean(req.header) THEN req.header ELSE req.query
       IN  IF ~ToBoolean(got)
           THEN [NoOutcome EXCEPT !.status = 401, !.message = "API key required"]
           ELSE LET user == IF got.t = "string" THEN Map_get(auth.apiKeys, got.s)
                            ELSE Undef
                IN  IF ~ToBoolean(user)
                    THEN IF got.t = "string"
                         THEN [NoOutcome EXCEPT !.status = 401,
                                                !.message = "Invalid API key"]
                         ELSE [NoOutcome EXCEPT !.thrown = TRUE]
                    ELSE [NoOutcome EXCEPT !.apiUser = user, !.next = TRUE]

(* rate-limit.mjs is not loaded *)
NoAuth ==
  [env |-> [MCP_API_KEYS |-> Undef, MCP_API_KEY |-> Undef], loaded |-> FALSE,
   apiKeys |-> <<>>, req |-> [header |-> Undef, query |-> Undef],
   out |-> NoOutcome, served |-> FALSE]

----------------------------------------------------------------------------
(* The state of one invocation of a handler.                               *)
(*   kind, account, uid, uids, all, limit   the call and its arguments     *)
(*   pc        the command whose response the handler awaits               *)
(*   imap      the handler's variable `imap` holds a connection            *)
(*   sess, box the connection as the library sees it                       *)
(*   mode      access mode asked for in the pending or last openBox        *)
(*   listener  the once("error") listener of connectImap is registered     *)
(*   found     the result of the search                                    *)
(*   results   the per-item list of imap_bulk_move                         *)
(*   report    what the handler returned                                   *)
(*   ends, cmds, faults   history: number of imap.end() calls, commands    *)
(*             issued with the session state at the time, faults raised    *)

NoReport ==
  [success |-> FALSE, error |-> None, status |-> 0, echo |-> {},
   uid |-> 0, total |-> 0, succeeded |-> 0, failed |-> 0, results |-> <<>>,
   count |-> 0, returned |-> 0, emails |-> <<>>, folders |-> <<>>]

Fresh ==
  [kind |-> None, account |-> None, uid |-> 0, uids |-> <<>>, all |-> FALSE,
   limit |-> 0, folder |-> "INBOX", target |-> "Archiv", criteria |-> "ALL",
   messageId |-> 0, flags |-> {}, conn |-> 0, call |-> 0,
   xApiKey |-> Undefined, queryApiKey |-> Undefined, pc |-> "idle", imap |-> FALSE, sess |-> "none", box |-> "none",
   mode |-> "none", listener |-> FALSE, found |-> <<>>, results |-> <<>>,
   report |-> NoReport, ends |-> 0, cmds |-> <<>>, faults |-> <<>>]

NoResp == [err |-> None, data |-> <<>>]
Ok(d) == [err |-> None, data |-> d]
Err(m) == [err |-> m, data |-> <<>>]

(* a command handed to the library, logged with the state of the session   *)
issue(s, name, arg) ==
  [s EXCEPT !.pc = name,
            !.cmds = Append(@, [name |-> name, arg |-> arg,
                                sess |-> s.sess, box |-> s.box, mode |-> s.mode])]

(* imap.end() *)
imap_end(s) == [s EXCEPT !.ends = @ + 1, !.sess = "closed"]

(* the handler returns its report *)
return(s, rep) == [s EXCEPT !.pc = "done", !.report = rep]

(* connectImap: registers the once-listeners and calls imap.connect() *)
connectImap(s) ==
  issue([s EXCEPT !.listener = TRUE, !.sess = "connecting"], "connect", <<>>)

(* an openMailbox that passes false for readOnly whatever it was given *)
openMailbox_readWrite(s, readOnly) ==
  issue([s EXCEPT !.mode = "rw"], "openBox", <<>>)

(* an openMailbox that passes true for readOnly whatever it was given *)
openMailbox_readOnly(s, readOnly) ==
  issue([s EXCEPT !.mode = "ro"], "openBox", <<>>)

(* openMailbox: imap.openBox(mailbox, readOnly, cb) *)
openMailbox(s, readOnly) ==
  issue([s EXCEPT !.mode = IF readOnly THEN "ro" ELSE "rw"], "openBox", <<>>)

(* listMailboxes: imap.getBoxes(cb) *)
listMailboxes(s) == issue(s, "getBoxes", <<>>)

(* moveEmail: imap.move(uid, targetFolder, cb) *)
moveEmail(s, uid) == issue(s, "move", <<uid>>)

(* a deleteEmail that expunges without setting the flag first *)
deleteEmail_expungeFirst(s, uid) == issue(s, "expunge", <<>>)

(* deleteEmail: imap.addFlags(uid, ["\\Deleted"], cb), and in its callback *)
(* imap.expunge(cb)                                                        *)
deleteEmail(s, uid) ==
  issue([s EXCEPT !.flags = {"\\Deleted"}], "addFlags", <<uid>>)
deleteEmail_expunge(s) == issue(s, "expunge", <<>>)

(* a removeFlags that clears \Seen whatever flags it is given *)
removeFlags_seen(s, uids, flags) ==
  issue([s EXCEPT !.flags = {"\\Seen"}], "delFlags", uids)

(* removeFlags: imap.delFlags(uids, flags, cb) *)
removeFlags(s, uids, flags) == issue([s EXCEPT !.flags = flags], "delFlags", uids)

(* addFlags: imap.addFlags(uids, flags, cb) *)
addFlags(s, uids, flags) == issue([s EXCEPT !.flags = flags], "addFlags", uids)

(* searchEmails: imap.search(criteria, cb) *)
searchEmails(s) == issue(s, "search", <<>>)

(* a callback that resolves whatever err is *)
rejects_never(r) == FALSE

(* the callback of the promise wrappers: if (err) reject(err) else resolve *)
rejects(r) == r.err # None

(* a slice that keeps the first elements instead of the last *)
slice_head(a, start) ==
  LET n == IF start < 0 THEN 0 - start ELSE Len(a) - start
  IN  [i \in 1..(IF n > Len(a) THEN Len(a) ELSE IF n < 0 THEN 0 ELSE n) |-> a[i]]

(* Array.prototype.slice(start) *)
slice(a, start) ==
  LET from == IF start < 0 THEN (IF Len(a) + start < 0 THEN 0 ELSE Len(a) + start)
                           ELSE (IF start > Len(a) THEN Len(a) ELSE start)
  IN  [i \in 1..(Len(a) - from) |-> a[from + i]]

(* a catch block that calls imap.end() without looking at imap *)
toolCatch_alwaysEnd(s, err) ==
  return(imap_end(s), [NoReport EXCEPT !.success = FALSE, !.error = err])

(* a catch block that reports success *)
toolCatch_swallow(s, err) ==
  return(IF s.imap THEN imap_end(s) ELSE s, [NoReport EXCEPT !.success = TRUE])

(* a catch block that reports the failure and leaves the connection open *)
toolCatch_noEnd(s, err) ==
  return(s, [NoReport EXCEPT !.success = FALSE, !.error = err])

(* a catch block that closes the connection and throws the error again,    *)
(* so that the handler returns no report                                   *)
toolCatch_rethrow(s, err) ==
  [(IF s.imap THEN imap_end(s) ELSE s) EXCEPT !.pc = "thrown"]

(* the catch block of a tool handler *)
toolCatch(s, err) ==
  return(IF s.imap THEN imap_end(s) ELSE s,
         [NoReport EXCEPT !.success = FALSE, !.error = err])

(* the catch block of GET /test/:account *)
testCatch(s, err) ==
  return(IF s.imap THEN imap_end(s) ELSE s,
         [NoReport EXCEPT !.success = FALSE, !.error = err, !.status = 500,
                          !.echo = {"account"}])

(* fetchEmails: resolves [] without a command for an empty uid list,       *)
(* otherwise imap.fetch(uids, options)                                     *)
fetchEmails_resolvesAtOnce(uids) == Len(uids) = 0
fetchEmails(s, uids) == issue(s, "fetch", uids)

----------------------------------------------------------------------------
(* The handlers.  handler(s, r) is the state of the invocation after the   *)
(* segment that starts when response r to the pending command s.pc         *)
(* arrives (for pc = "idle": when the tool is called).                     *)

(* The folder tree.  imap.getBoxes answers with an object that maps each    *)
(* folder name to {attribs, delimiter, children, parent}, children being    *)
(* such an object again or null; the keys were inserted in the order of the *)
(* server's LIST responses.  The object is modelled as the sequence of its  *)
(* entries in insertion order, a string as the sequence of its parts.       *)
MaxNodes == 3
MaxDepth == 3

BoxNames == {"INBOX", "2023", "2024"}
Delims == {".", "/"}

(* the names that are canonical array indices, with their numeric value *)
ArrayIndex == [n \in {"2023", "2024"} |-> IF n = "2023" THEN 2023 ELSE 2024]

(* Object.entries(boxes): the integer-like keys first, in ascending        *)
(* numeric order, then the other keys in insertion order                    *)
Object_entries(bs) ==
  SortSeq(SelectSeq(bs, LAMBDA b : b.name \in DOMAIN ArrayIndex),
          LAMBDA a, b : ArrayIndex[a.name] < ArrayIndex[b.name])
  \o SelectSeq(bs, LAMBDA b : b.name \notin DOMAIN ArrayIndex)

(* the separator is always a dot *)
fullName_dot(prefix, box) ==
  IF prefix # <<>> THEN prefix \o <<".", box.name>> ELSE <<box.name>>

(* prefix ? `${prefix}${box.delimiter}${name}` : name *)
fullName(prefix, box) ==
  IF prefix # <<>> THEN prefix \o <<box.delimiter, box.name>> ELSE <<box.name>>

RECURSIVE flattenEntries(_, _)

(* flattenMailboxes(boxes, prefix = "") *)
flattenMailboxes(bs, prefix) == flattenEntries(Object_entries(bs), prefix)

(* the loop of flattenMailboxes over the entries *)
flattenEntries(entries, prefix) ==
  IF entries = <<>> THEN <<>>
  ELSE LET box == Head(entries)
       IN  <<[name |-> fullName(prefix, box), delimiter |-> box.delimiter,
              flags |-> box.attribs]>>
           \o (IF box.children # <<>>
               THEN flattenMailboxes(box.children, fullName(prefix, box))
               ELSE <<>>)
           \o flattenEntries(Tail(entries), prefix)

(* flattenMailboxes has not run *)
NoFolders == [done |-> FALSE, list |-> <<>>]

(* a tree as in the README: INBOX with the yearly archives below it *)
SampleBoxes ==
  << [name |-> "INBOX", delimiter |-> ".", attribs |-> <<>>,
      children |-> << [name |-> "2024", delimiter |-> ".", attribs |-> <<>>,
                       children |-> <<>>] >>] >>

imap_list_folders(s, r) ==
  CASE s.pc = "idle" ->
         IF createImapConnection(s.account) = Throw
         THEN toolCatch(s, NotConfigured)
         ELSE connectImap([s EXCEPT !.imap = TRUE])
    [] s.pc = "connect" ->
         IF rejects(r) THEN toolCatch(s, r.err) ELSE listMailboxes(s)
    [] s.pc = "getBoxes" ->
         IF rejects(r) THEN toolCatch(s, r.err)
         ELSE LET folders_ == flattenMailboxes(r.data, <<>>)
              IN  return(imap_end(s),
                         [NoReport EXCEPT !.success = TRUE, !.echo = {"account"},
                            !.folders = [i \in DOMAIN folders_ |-> folders_[i].name],
                            !.count = Len(folders_)])

imap_list_emails_report(s, emails) ==
  [NoReport EXCEPT !.success = TRUE, !.echo = {"account", "folder"},
                   !.total = Len(s.found), !.returned = Len(emails),
                   !.emails = emails]

imap_list_emails(s, r) ==
  CASE s.pc = "idle" ->
         IF createImapConnection(s.account) = Throw
         THEN toolCatch(s, NotConfigured)
         ELSE connectImap([s EXCEPT !.imap = TRUE])
    [] s.pc = "connect" ->
         IF rejects(r) THEN toolCatch(s, r.err) ELSE openMailbox(s, TRUE)
    [] s.pc = "openBox" ->
         IF rejects(r) THEN toolCatch(s, r.err) ELSE searchEmails(s)
    [] s.pc = "search" ->
         IF rejects(r) THEN toolCatch(s, r.err)
         ELSE LET s1 == [s EXCEPT !.found = r.data]
                  limitedUids == slice(r.data, 0 - s.limit)
              IN  IF fetchEmails_resolvesAtOnce(limitedUids)
                  THEN return(imap_end(s1), imap_list_emails_report(s1, <<>>))
                  ELSE fetchEmails(s1, limitedUids)
    [] s.pc = "fetch" ->
         IF rejects(r) THEN toolCatch(s, r.err)
         ELSE return(imap_end(s), imap_list_emails_report(s, r.data))

(* a move handler that does not await openMailbox: the move is issued     *)
(* whatever the outcome of the selection                                   *)
imap_move_email_noAwait(s, r) ==
  CASE s.pc = "idle" ->
         IF createImapConnection(s.account) = Throw
         THEN toolCatch(s, NotConfigured)
         ELSE connectImap([s EXCEPT !.imap = TRUE])
    [] s.pc = "connect" ->
         IF rejects(r) THEN toolCatch(s, r.err) ELSE openMailbox(s, FALSE)
    [] s.pc = "openBox" -> moveEmail(s, s.uid)
    [] s.pc = "move" ->
         IF rejects(r) THEN toolCatch(s, r.err)
         ELSE return(imap_end(s),
                     [NoReport EXCEPT !.success = TRUE, !.uid = s.uid,
                        !.echo = {"account", "uid", "sourceFolder", "targetFolder"}])

imap_move_email(s, r) ==
  CASE s.pc = "idle" ->
         IF createImapConnection(s.account) = Throw
         THEN toolCatch(s, NotConfigured)
         ELSE connectImap([s EXCEPT !.imap = TRUE])
    [] s.pc = "connect" ->
         IF rejects(r) THEN toolCatch(s, r.err) ELSE openMailbox(s, FALSE)
    [] s.pc = "openBox" ->
         IF rejects(r) THEN toolCatch(s, r.err) ELSE moveEmail(s, s.uid)
    [] s.pc = "move" ->
         IF rejects(r) THEN toolCatch(s, r.err)
         ELSE return(imap_end(s),
                     [NoReport EXCEPT !.success = TRUE, !.uid = s.uid,
                        !.echo = {"account", "uid", "sourceFolder", "targetFolder"}])

(* the last of the matches instead of the first *)
firstUid_last(uids) == uids[Len(uids)]

(* const uid = uids[0] *)
firstUid(uids) == uids[1]

(* a move by Message-ID without the check for an empty search result:    *)
(* uids[0] is undefined and is handed to imap.move                         *)
imap_move_by_message_id_noCheck(s, r) ==
  CASE s.pc = "idle" ->
         IF createImapConnection(s.account) = Throw
         THEN toolCatch(s, NotConfigured)
         ELSE connectImap([s EXCEPT !.imap = TRUE])
    [] s.pc = "connect" ->
         IF rejects(r) THEN toolCatch(s, r.err) ELSE openMailbox(s, FALSE)
    [] s.pc = "openBox" ->
         IF rejects(r) THEN toolCatch(s, r.err) ELSE searchEmails(s)
    [] s.pc = "search" ->
         IF rejects(r) THEN toolCatch(s, r.err)
         ELSE moveEmail([s EXCEPT !.found = r.data],
                        IF Len(r.data) = 0 THEN 0 ELSE r.data[1])
    [] s.pc = "move" ->
         IF rejects(r) THEN toolCatch(s, r.err)
         ELSE return(imap_end(s),
                     [NoReport EXCEPT !.success = TRUE,
                        !.uid = IF Len(s.found) = 0 THEN 0 ELSE s.found[1],
                        !.echo = {"account", "messageId", "sourceFolder", "targetFolder"}])

imap_move_by_message_id(s, r) ==
  CASE s.pc = "idle" ->
         IF createImapConnection(s.account) = Throw
         THEN toolCatch(s, NotConfigured)
         ELSE connectImap([s EXCEPT !.imap = TRUE])
    [] s.pc = "connect" ->
         IF rejects(r) THEN toolCatch(s, r.err) ELSE openMailbox(s, FALSE)
    [] s.pc = "openBox" ->
         IF rejects(r) THEN toolCatch(s, r.err) ELSE searchEmails(s)
    [] s.pc = "search" ->
         IF rejects(r) THEN toolCatch(s, r.err)
         ELSE LET s1 == [s EXCEPT !.found = r.data]
              IN  IF Len(r.data) = 0
                  THEN return(imap_end(s1),
                              [NoReport EXCEPT !.success = FALSE, !.error = NotFound])
                  ELSE moveEmail(s1, firstUid(r.data))
    [] s.pc = "move" ->
         IF rejects(r) THEN toolCatch(s, r.err)
         ELSE return(imap_end(s),
                     [NoReport EXCEPT !.success = TRUE, !.uid = firstUid(s.found),
                        !.echo = {"account", "messageId", "sourceFolder", "targetFolder"}])

imap_delete_email(s, r) ==
  CASE s.pc = "idle" ->
         IF createImapConnection(s.account) = Throw
         THEN toolCatch(s, NotConfigured)
         ELSE connectImap([s EXCEPT !.imap = TRUE])
    [] s.pc = "connect" ->
         IF rejects(r) THEN toolCatch(s, r.err) ELSE openMailbox(s, FALSE)
    [] s.pc = "openBox" ->
         IF rejects(r) THEN toolCatch(s, r.err) ELSE deleteEmail(s, s.uid)
    [] s.pc = "addFlags" ->
         IF rejects(r) THEN toolCatch(s, r.err) ELSE deleteEmail_expunge(s)
    [] s.pc = "expunge" ->
         IF rejects(r) THEN toolCatch(s, r.err)
         ELSE return(imap_end(s),
                     [NoReport EXCEPT !.success = TRUE, !.uid = s.uid,
                        !.echo = {"account", "uid", "folder"}])

(* a count of all entries instead of the successful ones *)
successCount_all(results) == Len(results)

(* results.filter((r) => r.success).length *)
successCount(results) == Cardinality({i \in DOMAIN results : results[i].success})

(* a loop that takes the items from the end of the list *)
imap_bulk_move_loop_backwards(s) ==
  IF Len(s.results) < Len(s.uids)
  THEN moveEmail(s, s.uids[Len(s.uids) - Len(s.results)])
  ELSE return(imap_end(s),
              [NoReport EXCEPT !.success = TRUE,
                 !.echo = {"account", "targetFolder"},
                 !.total = Len(s.uids),
                 !.succeeded = successCount(s.results),
                 !.failed = Len(s.uids) - successCount(s.results),
                 !.results = s.results])

(* one turn of the for loop of imap_bulk_move: the next item, or the end   *)
(* of the loop and the report                                              *)
imap_bulk_move_loop(s) ==
  IF Len(s.results) < Len(s.uids)
  THEN moveEmail(s, s.uids[Len(s.results) + 1])
  ELSE return(imap_end(s),
              [NoReport EXCEPT !.success = TRUE,
                 !.echo = {"account", "targetFolder"},
                 !.total = Len(s.uids),
                 !.succeeded = successCount(s.results),
                 !.failed = Len(s.uids) - successCount(s.results),
                 !.results = s.results])

(* a bulk move without the inner try/catch: a failed move reaches the     *)
(* outer catch block                                                       *)
imap_bulk_move_noInnerCatch(s, r) ==
  CASE s.pc = "idle" ->
         IF createImapConnection(s.account) = Throw
         THEN toolCatch(s, NotConfigured)
         ELSE connectImap([s EXCEPT !.imap = TRUE])
    [] s.pc = "connect" ->
         IF rejects(r) THEN toolCatch(s, r.err) ELSE openMailbox(s, FALSE)
    [] s.pc = "openBox" ->
         IF rejects(r) THEN toolCatch(s, r.err) ELSE imap_bulk_move_loop(s)
    [] s.pc = "move" ->
         LET uid == s.uids[Len(s.results) + 1]
         IN  IF rejects(r) THEN toolCatch(s, r.err)
             ELSE imap_bulk_move_loop([s EXCEPT !.results =
                     Append(@, [uid |-> uid, success |-> TRUE, error |-> None])])

imap_bulk_move(s, r) ==
  CASE s.pc = "idle" ->
         IF createImapConnection(s.account) = Throw
         THEN toolCatch(s, NotConfigured)
         ELSE connectImap([s EXCEPT !.imap = TRUE])
    [] s.pc = "connect" ->
         IF rejects(r) THEN toolCatch(s, r.err) ELSE openMailbox(s, FALSE)
    [] s.pc = "openBox" ->
         IF rejects(r) THEN toolCatch(s, r.err) ELSE imap_bulk_move_loop(s)
    [] s.pc = "move" ->
         LET uid == s.uids[Len(s.results) + 1]
             item == IF rejects(r)
                     THEN [uid |-> uid, success |-> FALSE, error |-> r.err]
                     ELSE [uid |-> uid, success |-> TRUE, error |-> None]
         IN  imap_bulk_move_loop([s EXCEPT !.results = Append(@, item)])

(* the end of imap_mark_unseen without the check for an empty target list *)
imap_mark_unseen_finish_noCheck(s, targetUids) ==
  removeFlags(s, targetUids, {"\\Seen"})

(* imap_mark_unseen from the target UIDs on: nothing to do for none of     *)
(* them, otherwise removeFlags for all of them at once                     *)
imap_mark_unseen_finish(s, targetUids) ==
  IF Len(targetUids) = 0
  THEN return(imap_end(s),
              [NoReport EXCEPT !.success = TRUE, !.echo = {"account", "folder"},
                               !.count = 0])
  ELSE removeFlags(s, targetUids, {"\\Seen"})

imap_mark_unseen(s, r) ==
  CASE s.pc = "idle" ->
         IF createImapConnection(s.account) = Throw
         THEN toolCatch(s, NotConfigured)
         ELSE connectImap([s EXCEPT !.imap = TRUE])
    [] s.pc = "connect" ->
         IF rejects(r) THEN toolCatch(s, r.err) ELSE openMailbox(s, FALSE)
    [] s.pc = "openBox" ->
         IF rejects(r) THEN toolCatch(s, r.err)
         ELSE IF s.all \/ Len(s.uids) = 0
              THEN searchEmails(s)
              ELSE imap_mark_unseen_finish([s EXCEPT !.found = s.uids], s.uids)
    [] s.pc = "search" ->
         IF rejects(r) THEN toolCatch(s, r.err)
         ELSE imap_mark_unseen_finish([s EXCEPT !.found = r.data], r.data)
    [] s.pc = "delFlags" ->
         IF rejects(r) THEN toolCatch(s, r.err)
         ELSE return(imap_end(s),
                     [NoReport EXCEPT !.success = TRUE, !.echo = {"account", "folder"},
                                      !.count = Len(s.found)])

test_account(s, r) ==
  CASE s.pc = "idle" ->
         IF createImapConnection(s.account) = Throw
         THEN testCatch(s, NotConfigured)
         ELSE connectImap([s EXCEPT !.imap = TRUE])
    [] s.pc = "connect" ->
         IF rejects(r) THEN testCatch(s, r.err) ELSE listMailboxes(s)
    [] s.pc = "getBoxes" ->
         IF rejects(r) THEN testCatch(s, r.err)
         ELSE return(imap_end(s),
                     [NoReport EXCEPT !.success = TRUE, !.status = 200,
                                      !.echo = {"account"}])

(* the handler registered for a tool or route *)
handle(s, r) ==
  CASE s.kind = "imap_list_folders" -> imap_list_folders(s, r)
    [] s.kind = "imap_list_emails" -> imap_list_emails(s, r)
    [] s.kind = "imap_move_email" -> imap_move_email(s, r)
    [] s.kind = "imap_move_by_message_id" -> imap_move_by_message_id(s, r)
    [] s.kind = "imap_delete_email" -> imap_delete_email(s, r)
    [] s.kind = "imap_bulk_move" -> imap_bulk_move(s, r)
    [] s.kind = "imap_mark_unseen" -> imap_mark_unseen(s, r)
    [] s.kind = "test_account" -> test_account(s, r)

----------------------------------------------------------------------------
(* The library and the server, as far as the handlers can observe them.    *)

(* ascending lists of distinct uids, as imap.search returns them *)
SearchResults ==
  {f \in SeqsUpTo(Uids, MaxFound) : \A i, j \in DOMAIN f : i < j => f[i] < f[j]}

(* the responses the library can give to the pending command of s; the     *)
(* move of a uid outside `failable` is not made to fail                    *)
Responses(s, failable) ==
  CASE s.pc = "connect" -> {Ok(<<>>)}
    [] s.pc = "search" -> {Ok(f) : f \in SearchResults} \cup {Err(m) : m \in Msgs}
    [] s.pc = "fetch" -> {Ok(s.cmds[Len(s.cmds)].arg)} \cup {Err(m) : m \in Msgs}
    [] s.pc = "move" ->
         {Ok(<<>>)} \cup
         (IF s.cmds[Len(s.cmds)].arg[1] \in failable
          THEN {Err(m) : m \in Msgs} ELSE {})
    [] s.pc = "getBoxes" ->
         {Ok(<<>>), Ok(SampleBoxes)} \cup {Err(m) : m \in Msgs}
    [] s.pc \in {"openBox", "addFlags", "expunge", "delFlags"} ->
         {Ok(<<>>)} \cup {Err(m) : m \in Msgs}
    [] OTHER -> {}

(* what producing response r does to the connection: 'ready' follows a     *)
(* successful login, a successful openBox selects the mailbox in the mode  *)
(* asked for; a fault is recorded with the command it answers              *)
library(s, r) ==
  LET s1 == IF r.err # None
            THEN [s EXCEPT !.faults = Append(@, [msg |-> r.err, at |-> s.pc,
                                                 n |-> Len(s.cmds)])]
            ELSE s
  IN  CASE r.err = None /\ s.pc = "connect" -> [s1 EXCEPT !.sess = "ready"]
        [] r.err = None /\ s.pc = "openBox" -> [s1 EXCEPT !.box = s.mode]
        [] OTHER -> s1

(* an 'error' event on the connection.  The only listener is the one       *)
(* connectImap registered with once(): it rejects the connect promise,     *)
(* which does nothing once that promise is settled, and it is gone after   *)
(* its first call.                                                         *)
onError(s, m) ==
  LET s1 == [s EXCEPT !.listener = FALSE,
                      !.faults = Append(@, [msg |-> m, n |-> Len(s.cmds),
                                  at |-> IF s.pc = "connect" THEN "connect" ELSE "event"])]
  IN  IF s.pc = "connect" THEN handle(s1, Err(m)) ELSE s1

----------------------------------------------------------------------------
(* Actions *)

----------------------------------------------------------------------------
(* The /mcp endpoint: the API key check in front of the transport that     *)
(* runs the tool handlers.                                                 *)

(* the keys a request can carry in its x-api-key header or its apiKey      *)
(* query value, each of which can also be absent or empty                  *)
Keys == {Undefined, "", "k1", "k2"}

InvalidApiKey == "Invalid API key"

(* req.headers["x-api-key"] || req.query.apiKey *)
providedKey(s) == IF Truthy(s.xApiKey) THEN s.xApiKey ELSE s.queryApiKey

(* a check that lets a request without a key through *)
authorized_ifGiven(s) ==
  ~Truthy(apiKey) \/ ~Truthy(providedKey(s)) \/ providedKey(s) = apiKey

(* if (config.apiKey) { if (providedKey !== config.apiKey) return 401 } *)
authorized(s) == ~Truthy(apiKey) \/ providedKey(s) = apiKey

(* app.all("/mcp"): the request s is answered with 401, or the transport   *)
(* hands it to its tool handler, which runs up to its first await          *)
mcp(s) ==
  IF authorized(s) THEN handle(s, NoResp)
  ELSE return(s, [NoReport EXCEPT !.status = 401, !.error = InvalidApiKey])

----------------------------------------------------------------------------
(* The mailboxes of the IMAP server the connections talk to.  A mailbox    *)
(* holds its messages in ascending UID order and the UID it gives to the   *)
(* next message that arrives; a message is its UID, its Message-ID header  *)
(* and its flags.                                                          *)
MaxMsgs == 2
MaxNext == 3

Folders == {"INBOX", "Archiv"}
MessageIds == 1..MaxMsgs

(* what is kept of a call that has ended: a move that reported success,    *)
(* with the Message-ID of the message its UID named when it began          *)
NoMove == [kind |-> None, from |-> None, to |-> None, messageId |-> 0]

(* the mailboxes when they are not looked at: empty *)
NoStore == [f \in Folders |-> [msgs |-> <<>>, next |-> 1]]

(* INBOX holds up to MaxMsgs messages, the first of them read *)
Stores ==
  {[NoStore EXCEPT !["INBOX"] =
      [msgs |-> [i \in 1..n |->
                   [uid |-> i, messageId |-> i,
                    flags |-> IF i = 1 THEN {"\\Seen"} ELSE {}]],
       next |-> n + 1]] :
     n \in 1..MaxMsgs}

UidsIn(box) == {box.msgs[i].uid : i \in DOMAIN box.msgs}
ByUid(box, uid) == CHOOSE m \in {box.msgs[i] : i \in DOMAIN box.msgs} : m.uid = uid

(* the search criteria of the call: the tool's own for imap_list_emails,   *)
(* the Message-ID header for imap_move_by_message_id, ALL otherwise        *)
SearchCriteria(s) ==
  CASE s.kind = "imap_list_emails" -> <<s.criteria>>
    [] s.kind = "imap_move_by_message_id" -> <<"HEADER", "MESSAGE-ID", s.messageId>>
    [] OTHER -> <<"ALL">>

Matches(m, criteria) ==
  CASE criteria = <<"ALL">> -> TRUE
    [] criteria = <<"UNSEEN">> -> "\\Seen" \notin m.flags
    [] criteria[1] = "HEADER" -> m.messageId = criteria[3]
    [] OTHER -> FALSE

(* UID SEARCH: the matching UIDs in ascending order *)
Search(box, criteria) ==
  LET hits == SelectSeq(box.msgs, LAMBDA m : Matches(m, criteria))
  IN  [i \in DOMAIN hits |-> hits[i].uid]

(* UID FETCH: one item per listed UID that exists *)
Fetch(box, uids) ==
  LET there == SelectSeq(uids, LAMBDA u : u \in UidsIn(box))
  IN  [i \in DOMAIN there |->
         [uid |-> there[i], messageId |-> ByUid(box, there[i]).messageId]]

(* UID MOVE (or COPY, \Deleted, EXPUNGE): the message leaves the mailbox   *)
(* and arrives in the target under the target's next UID; a UID that is    *)
(* not there moves nothing                                                 *)
Move(st, f, t, uid) ==
  IF uid \notin UidsIn(st[f]) THEN st
  ELSE LET m == ByUid(st[f], uid)
           st1 == [st EXCEPT ![f].msgs = SelectSeq(@, LAMBDA x : x.uid # uid)]
       IN  [st1 EXCEPT ![t].msgs = Append(@, [m EXCEPT !.uid = st1[t].next]),
                       ![t].next = @ + 1]

(* UID STORE +FLAGS / -FLAGS *)
StoreFlags(st, f, uids, add, del) ==
  [st EXCEPT ![f].msgs =
     [i \in DOMAIN @ |->
        IF @[i].uid \in {uids[j] : j \in DOMAIN uids}
        THEN [@[i] EXCEPT !.flags = (@ \cup add) \ del]
        ELSE @[i]]]

Expunge(st, f) ==
  [st EXCEPT ![f].msgs = SelectSeq(@, LAMBDA m : "\\Deleted" \notin m.flags)]

(* what the server st does with the pending command of s: the responses it *)
(* can give, each with the mailboxes it leaves.  A command can be refused;  *)
(* one that changes a mailbox selected read-only is.                        *)
server(st, s) ==
  LET f == s.folder
      arg == s.cmds[Len(s.cmds)].arg
      ok(d, st2) == [r |-> Ok(d), st |-> st2]
      no == [r |-> Err("NO"), st |-> st]
      write(st2) == IF s.box = "rw" THEN {ok(<<>>, st2), no} ELSE {no}
  IN  CASE s.pc = "connect" -> {ok(<<>>, st)}
        [] s.pc = "openBox" -> {ok(<<>>, st), no}
        [] s.pc = "search" -> {ok(Search(st[f], SearchCriteria(s)), st), no}
        [] s.pc = "fetch" -> {ok(Fetch(st[f], arg), st), no}
        [] s.pc = "move" -> write(Move(st, f, s.target, arg[1]))
        [] s.pc = "addFlags" -> write(StoreFlags(st, f, arg, s.flags, {}))
        [] s.pc = "delFlags" -> write(StoreFlags(st, f, arg, {}, s.flags))
        [] s.pc = "expunge" -> write(Expunge(st, f))
        [] OTHER -> {}

Init ==
  /\ op = [o \in Callers |-> Fresh]
  /\ crashed = FALSE
  /\ config = accounts
  /\ apiKey = ""
  /\ listing = NoListing
  /\ other = NoOther
  /\ auth = NoAuth
  /\ boxes = <<>>
  /\ folders = NoFolders
  /\ store = NoStore
  /\ before = NoStore
  /\ last = NoMove
  /\ heap = <<>>
  /\ started = 0

(* the states a call of o can start in: the handler runs up to its first   *)
(* await                                                                   *)
Called(o, calls) ==
  IF op[o].pc = "idle" THEN {handle(s0, NoResp) : s0 \in calls} ELSE {}

(* the states o can be in after the response to its pending command *)
Answered(o, k, failable) ==
  IF op[o].kind = k
  THEN {handle(library(op[o], r), r) : r \in Responses(op[o], failable)}
  ELSE {}

ListFolders(o) ==
  /\ ~crashed
  /\ \E s2 \in Called(o, {[Fresh EXCEPT !.kind = "imap_list_folders", !.account = a] :
                            a \in AccountKeys})
             \cup Answered(o, "imap_list_folders", {}) :
        op' = [op EXCEPT ![o] = s2]
  /\ UNCHANGED <<crashed, aux>>

ListEmails(o) ==
  /\ ~crashed
  /\ \E s2 \in Called(o, {[Fresh EXCEPT !.kind = "imap_list_emails", !.account = a,
                                        !.limit = l] :
                            a \in AccountKeys, l \in 0..MaxLimit})
             \cup Answered(o, "imap_list_emails", {}) :
        op' = [op EXCEPT ![o] = s2]
  /\ UNCHANGED <<crashed, aux>>

MoveEmail(o, failable) ==
  /\ ~crashed
  /\ \E s2 \in Called(o, {[Fresh EXCEPT !.kind = "imap_move_email", !.account = a,
                                        !.uid = u] :
                            a \in AccountKeys, u \in Uids})
             \cup Answered(o, "imap_move_email", failable) :
        op' = [op EXCEPT ![o] = s2]
  /\ UNCHANGED <<crashed, aux>>

MoveByMessageId(o, failable) ==
  /\ ~crashed
  /\ \E s2 \in Called(o, {[Fresh EXCEPT !.kind = "imap_move_by_message_id",
                                        !.account = a] :
                            a \in AccountKeys})
             \cup Answered(o, "imap_move_by_message_id", failable) :
        op' = [op EXCEPT ![o] = s2]
  /\ UNCHANGED <<crashed, aux>>

DeleteEmail(o) ==
  /\ ~crashed
  /\ \E s2 \in Called(o, {[Fresh EXCEPT !.kind = "imap_delete_email", !.account = a,
                                        !.uid = u] :
                            a \in AccountKeys, u \in Uids})
             \cup Answered(o, "imap_delete_email", {}) :
        op' = [op EXCEPT ![o] = s2]
  /\ UNCHANGED <<crashed, aux>>

BulkMove(o, lists, failable) ==
  /\ ~crashed
  /\ \E s2 \in Called(o, {[Fresh EXCEPT !.kind = "imap_bulk_move", !.account = a,
                                        !.uids = l] :
                            a \in AccountKeys, l \in lists})
             \cup Answered(o, "imap_bulk_move", failable) :
        op' = [op EXCEPT ![o] = s2]
  /\ UNCHANGED <<crashed, aux>>

MarkUnseen(o, lists) ==
  /\ ~crashed
  /\ \E s2 \in Called(o, {[Fresh EXCEPT !.kind = "imap_mark_unseen", !.account = a,
                                        !.uids = l, !.all = all] :
                            a \in AccountKeys, l \in lists, all \in BOOLEAN})
             \cup Answered(o, "imap_mark_unseen", {}) :
        op' = [op EXCEPT ![o] = s2]
  /\ UNCHANGED <<crashed, aux>>

TestAccount(o) ==
  /\ ~crashed
  /\ \E s2 \in Called(o, {[Fresh EXCEPT !.kind = "test_account", !.account = a] :
                            a \in AccountKeys})
             \cup Answered(o, "test_account", {}) :
        op' = [op EXCEPT ![o] = s2]
  /\ UNCHANGED <<crashed, aux>>

(* The connection of o emits 'error'.  With no listener left the event is  *)
(* thrown as an uncaught exception and the process ends.                   *)
ErrorEvent(o) ==
  /\ ~crashed
  /\ op[o].sess \in {"connecting", "ready"}
  /\ \E m \in Msgs :
       IF op[o].listener
       THEN /\ op' = [op EXCEPT ![o] = onError(op[o], m)]
            /\ UNCHANGED crashed
       ELSE /\ op' = [op EXCEPT ![o].faults =
                         Append(@, [msg |-> m, at |-> "uncaught",
                                    n |-> Len(op[o].cmds)])]
            /\ crashed' = TRUE
  /\ UNCHANGED aux

UidLists == SeqsUpTo(Uids, MaxLen)

(* the steps of the calls made by the callers in cs, with uid lists drawn  *)
(* from lists and move failures possible for the uids in failable          *)
Step(cs, lists, failable) ==
  \E o \in cs :
    \/ ListFolders(o)
    \/ ListEmails(o)
    \/ MoveEmail(o, failable)
    \/ MoveByMessageId(o, failable)
    \/ DeleteEmail(o)
    \/ BulkMove(o, lists, failable)
    \/ MarkUnseen(o, lists)
    \/ TestAccount(o)
    \/ ErrorEvent(o)

(* one call, every tool, short uid lists *)
Next == Step(Callers, UidLists, Uids)

Spec == Init /\ [][Next]_vars

(* one bulk call with a list at and just above the documented cap; the     *)
(* moves of the first and the last uid can fail                            *)
BulkLists == {[i \in 1..n |-> i] : n \in {MaxBulkItems, MaxBulkItems + 1}}

NextBulk ==
  \/ BulkMove("c1", BulkLists, {1, MaxBulkItems + 1})
  \/ ErrorEvent("c1")

SpecBulk == Init /\ [][NextBulk]_vars

(* the response to the pending command of o arrives *)
Deliver(o) ==
  /\ op[o].pc # "idle"
  /\ \/ ListFolders(o)
     \/ ListEmails(o)
     \/ MoveEmail(o, Uids)
     \/ MoveByMessageId(o, Uids)
     \/ DeleteEmail(o)
     \/ BulkMove(o, UidLists, Uids)
     \/ MarkUnseen(o, UidLists)
     \/ TestAccount(o)

(* every command issued to the library is answered in the end *)
LiveSpec == Spec /\ \A o \in Callers : WF_vars(Deliver(o))

----------------------------------------------------------------------------
(* The account registry under every environment: the listings and the     *)
(* resolution of an account key by a tool.                                 *)

ListAccounts ==
  /\ listing' = imap_list_accounts
  /\ UNCHANGED <<op, crashed, config, apiKey, other, auth, tree, mail, net>>

GetAccounts ==
  /\ listing' = get_accounts
  /\ UNCHANGED <<op, crashed, config, apiKey, other, auth, tree, mail, net>>

GetVersion ==
  /\ listing' = get_version
  /\ UNCHANGED <<op, crashed, config, apiKey, other, auth, tree, mail, net>>

InitAccounts ==
  /\ op = [o \in Callers |-> Fresh]
  /\ crashed = FALSE
  /\ config \in Configs
  /\ apiKey = ""
  /\ listing = NoListing
  /\ other = NoOther
  /\ auth = NoAuth
  /\ boxes = <<>>
  /\ folders = NoFolders
  /\ store = NoStore
  /\ before = NoStore
  /\ last = NoMove
  /\ heap = <<>>
  /\ started = 0

NextAccounts ==
  \/ ListAccounts
  \/ GetAccounts
  \/ GetVersion
  \/ \E o \in Callers : ListFolders(o)

SpecAccounts == InitAccounts /\ [][NextAccounts]_vars

----------------------------------------------------------------------------
(* Two runs of the server whose environments differ in the passwords only, *)
(* each asked the same.                                                    *)

(* the environments that differ from accs in passwords only *)
Variants(accs) ==
  {c \in Configs : \A k \in DOMAIN accs : c[k].user = accs[k].user}

BothListAccounts ==
  /\ listing' = imap_list_accounts
  /\ other' = [other EXCEPT
                 !.listing = respond("imap_list_accounts", configured(other.config))]
  /\ UNCHANGED <<op, crashed, config, apiKey, auth, tree, mail, net>>

BothGetAccounts ==
  /\ listing' = get_accounts
  /\ other' = [other EXCEPT
                 !.listing = respond("/accounts", configured(other.config))]
  /\ UNCHANGED <<op, crashed, config, apiKey, auth, tree, mail, net>>

BothGetVersion ==
  /\ listing' = get_version
  /\ other' = [other EXCEPT
                 !.listing = respond("/version", configured(other.config))]
  /\ UNCHANGED <<op, crashed, config, apiKey, auth, tree, mail, net>>

InitBoth ==
  /\ op = [o \in Callers |-> Fresh]
  /\ crashed = FALSE
  /\ config \in {c \in Configs : \A k \in DOMAIN c : c[k].user # Undefined}
  /\ apiKey = ""
  /\ listing = NoListing
  /\ other \in [config : Variants(config), listing : {NoListing}]
  /\ auth = NoAuth
  /\ boxes = <<>>
  /\ folders = NoFolders
  /\ store = NoStore
  /\ before = NoStore
  /\ last = NoMove
  /\ heap = <<>>
  /\ started = 0

NextBoth == BothListAccounts \/ BothGetAccounts \/ BothGetVersion

SpecBoth == InitBoth /\ [][NextBoth]_vars

----------------------------------------------------------------------------
(* rate-limit.mjs under every environment: the module is loaded, then      *)
(* requests pass through requireApiKey.                                    *)

(* the values of MCP_API_KEYS and MCP_API_KEY: unset, or a string *)
Envs ==
  [MCP_API_KEYS : {Undef} \cup {Str(cs) : cs \in Strings},
   MCP_API_KEY : {Undef, Str(<<>>), Str(<<"k">>), Str(<<"a">>)}]

(* the x-api-key header is absent or a string; the api_key query value is  *)
(* absent, a string, or an array when the query names api_key twice        *)
Requests ==
  [header : {Undef, Str(<<>>), Str(<<"k">>), Str(<<"a">>)},
   query : {Undef, Str(<<"k">>), Str(<<"a", "a">>), Arr(<<"k", "k">>)}]

(* const apiKeys = parseApiKeys() *)
LoadRateLimit ==
  /\ ~auth.loaded
  /\ auth' = [auth EXCEPT !.loaded = TRUE, !.apiKeys = parseApiKeys]
  /\ UNCHANGED <<op, crashed, config, apiKey, listing, other, tree, mail, net>>

RequireApiKey ==
  /\ auth.loaded
  /\ \E req \in Requests :
       auth' = [auth EXCEPT !.req = req, !.out = requireApiKey(req),
                            !.served = TRUE]
  /\ UNCHANGED <<op, crashed, config, apiKey, listing, other, tree, mail, net>>

InitAuth ==
  /\ op = [o \in Callers |-> Fresh]
  /\ crashed = FALSE
  /\ config = accounts
  /\ apiKey = ""
  /\ listing = NoListing
  /\ other = NoOther
  /\ auth \in {[NoAuth EXCEPT !.env = e] : e \in Envs}
  /\ boxes = <<>>
  /\ folders = NoFolders
  /\ store = NoStore
  /\ before = NoStore
  /\ last = NoMove
  /\ heap = <<>>
  /\ started = 0

NextAuth == LoadRateLimit \/ RequireApiKey

SpecAuth == InitAuth /\ [][NextAuth]_vars

----------------------------------------------------------------------------
(* Requests to /mcp, with and without a configured API key *)

(* a request to /mcp arrives, or the call it started goes on *)
McpSteps(o, k, calls) ==
  (IF op[o].pc = "idle"
   THEN {mcp([c EXCEPT !.xApiKey = h, !.queryApiKey = q]) :
           c \in calls, h \in Keys, q \in Keys}
   ELSE {})
  \cup Answered(o, k, Uids)

McpListFolders(o) ==
  /\ ~crashed
  /\ \E s2 \in McpSteps(o, "imap_list_folders",
                        {[Fresh EXCEPT !.kind = "imap_list_folders", !.account = a] :
                           a \in {"onecom", "nokey"}}) :
       op' = [op EXCEPT ![o] = s2]
  /\ UNCHANGED <<crashed, aux>>

McpDeleteEmail(o) ==
  /\ ~crashed
  /\ \E s2 \in McpSteps(o, "imap_delete_email",
                        {[Fresh EXCEPT !.kind = "imap_delete_email", !.account = a,
                                       !.uid = 1] :
                           a \in {"onecom", "nokey"}}) :
       op' = [op EXCEPT ![o] = s2]
  /\ UNCHANGED <<crashed, aux>>

InitMcp ==
  /\ op = [o \in Callers |-> Fresh]
  /\ crashed = FALSE
  /\ config = accounts
  /\ apiKey \in {"", "k1"}
  /\ listing = NoListing
  /\ other = NoOther
  /\ auth = NoAuth
  /\ boxes = <<>>
  /\ folders = NoFolders
  /\ store = NoStore
  /\ before = NoStore
  /\ last = NoMove
  /\ heap = <<>>
  /\ started = 0

NextMcp == \E o \in Callers : McpListFolders(o) \/ McpDeleteEmail(o)

SpecMcp == InitMcp /\ [][NextMcp]_vars

----------------------------------------------------------------------------
(* Calls against the mailboxes of the server: what a call finds and        *)
(* returns is what the calls before it left there.                         *)

(* the states o can be in after the server's response to its pending       *)
(* command, each with the mailboxes the server leaves                      *)
Served(o, k) ==
  IF op[o].kind = k
  THEN {[s |-> handle(library(op[o], p.r), p.r), st |-> p.st] :
          p \in server(store, op[o])}
  ELSE {}

(* a call begins, or the call in progress goes on with the response: the  *)
(* state of the call, the mailboxes, and the mailboxes as the call found   *)
(* them                                                                    *)
Steps(o, k, calls) ==
  {[s |-> s2, st |-> store, bf |-> store] : s2 \in Called(o, calls)}
  \cup {[s |-> p.s, st |-> p.st, bf |-> before] : p \in Served(o, k)}

(* the mailboxes have room for one more arrival *)
Room == \A f \in Folders : store[f].next <= MaxNext

StoreListEmails(o) ==
  /\ ~crashed
  /\ \E n \in Steps(o, "imap_list_emails",
                    {[Fresh EXCEPT !.kind = "imap_list_emails",
                                   !.account = "onecom", !.folder = f,
                                   !.limit = l, !.criteria = c] :
                       f \in Folders, l \in 0..MaxLimit, c \in {"ALL", "UNSEEN"}}) :
       /\ op' = [op EXCEPT ![o] = n.s]
       /\ store' = n.st
       /\ before' = n.bf
  /\ UNCHANGED <<crashed, registry, tree, last, net>>

StoreMoveEmail(o) ==
  /\ ~crashed
  /\ \E n \in Steps(o, "imap_move_email",
                    {[Fresh EXCEPT !.kind = "imap_move_email",
                                   !.account = "onecom", !.folder = f,
                                   !.target = t, !.uid = u] :
                       f \in Folders, t \in {x \in Folders : Room}, u \in Uids}) :
       /\ op' = [op EXCEPT ![o] = n.s]
       /\ store' = n.st
       /\ before' = n.bf
  /\ UNCHANGED <<crashed, registry, tree, last, net>>

StoreMoveByMessageId(o) ==
  /\ ~crashed
  /\ \E n \in Steps(o, "imap_move_by_message_id",
                    {[Fresh EXCEPT !.kind = "imap_move_by_message_id",
                                   !.account = "onecom", !.folder = f,
                                   !.target = t, !.messageId = id] :
                       f \in Folders, t \in {x \in Folders : Room},
                       id \in MessageIds}) :
       /\ op' = [op EXCEPT ![o] = n.s]
       /\ store' = n.st
       /\ before' = n.bf
  /\ UNCHANGED <<crashed, registry, tree, last, net>>

StoreBulkMove(o) ==
  /\ ~crashed
  /\ \E n \in Steps(o, "imap_bulk_move",
                    {[Fresh EXCEPT !.kind = "imap_bulk_move",
                                   !.account = "onecom", !.folder = f,
                                   !.target = t, !.uids = l] :
                       f \in Folders, t \in {x \in Folders : Room},
                       l \in UidLists}) :
       /\ op' = [op EXCEPT ![o] = n.s]
       /\ store' = n.st
       /\ before' = n.bf
  /\ UNCHANGED <<crashed, registry, tree, last, net>>

(* what is kept of a call that has ended *)
Summary(s, bf) ==
  IF ~s.report.success THEN NoMove
  ELSE [kind |-> s.kind, from |-> s.folder, to |-> s.target,
        messageId |->
          CASE s.kind = "imap_move_by_message_id" -> s.messageId
            [] s.kind = "imap_move_email" /\ s.uid \in UidsIn(bf[s.folder]) ->
                 ByUid(bf[s.folder], s.uid).messageId
            [] OTHER -> 0]

(* the caller has its report and can call again *)
Again(o) ==
  /\ op[o].pc = "done"
  /\ last' = IF op[o].kind = "imap_list_emails" THEN last
             ELSE Summary(op[o], before)
  /\ op' = [op EXCEPT ![o] = Fresh]
  /\ before' = store
  /\ UNCHANGED <<crashed, registry, tree, store, net>>

InitStore ==
  /\ op = [o \in Callers |-> Fresh]
  /\ crashed = FALSE
  /\ config = accounts
  /\ apiKey = ""
  /\ listing = NoListing
  /\ other = NoOther
  /\ auth = NoAuth
  /\ boxes = <<>>
  /\ folders = NoFolders
  /\ store \in Stores
  /\ before = store
  /\ last = NoMove
  /\ heap = <<>>
  /\ started = 0

NextStore ==
  \E o \in Callers :
    \/ StoreListEmails(o)
    \/ StoreMoveEmail(o)
    \/ StoreMoveByMessageId(o)
    \/ StoreBulkMove(o)
    \/ Again(o)

SpecStore == InitStore /\ [][NextStore]_vars

----------------------------------------------------------------------------
(* One call of each tool against mailboxes in which several messages can   *)
(* carry the same Message-ID and any of them the \Deleted flag, on a server *)
(* without MOVE, where imap.move is a COPY, a STORE of \Deleted and an      *)
(* EXPUNGE, each of which can fail.                                         *)

MailStores ==
  {[NoStore EXCEPT
      !["INBOX"] =
         [msgs |-> [i \in 1..n |->
                      [uid |-> i, messageId |-> ids[i],
                       flags |-> (IF i = 1 THEN {"\\Seen"} ELSE {})
                                 \cup (IF i \in del THEN {"\\Deleted"} ELSE {})]],
          next |-> n + 1],
      !["Archiv"] =
         IF a THEN [msgs |-> <<[uid |-> 1, messageId |-> 1, flags |-> {"\\Deleted"}]>>,
                    next |-> 2]
         ELSE @] :
     n \in 1..MaxMsgs, ids \in [1..MaxMsgs -> MessageIds],
     del \in SUBSET (1..MaxMsgs), a \in BOOLEAN}

(* UID COPY: the message arrives in the target under the target's next UID *)
(* and stays where it is                                                    *)
Copy(st, f, t, uid) ==
  IF uid \notin UidsIn(st[f]) THEN st
  ELSE [st EXCEPT ![t].msgs = Append(@, [ByUid(st[f], uid) EXCEPT !.uid = st[t].next]),
                  ![t].next = @ + 1]

(* the responses to the pending command of s and the mailboxes left: those  *)
(* of server, a move that fails after its COPY or after its STORE, and the  *)
(* answer to getBoxes                                                       *)
mailServer(st, s) ==
  server(st, s) \cup
  CASE s.pc = "move" /\ s.box = "rw" ->
         LET uid == s.cmds[Len(s.cmds)].arg[1]
             copied == Copy(st, s.folder, s.target, uid)
         IN  {[r |-> Err("NO"), st |-> copied],
              [r |-> Err("NO"),
               st |-> StoreFlags(copied, s.folder, <<uid>>, {"\\Deleted"}, {})]}
    [] s.pc = "getBoxes" ->
         {[r |-> Ok(SampleBoxes), st |-> st], [r |-> Err("NO"), st |-> st]}
    [] OTHER -> {}

(* a call begins, or the call in progress goes on with the response *)
MailSteps(o, k, calls) ==
  {[s |-> s2, st |-> store, bf |-> store] : s2 \in Called(o, calls)}
  \cup (IF op[o].kind = k
        THEN {[s |-> handle(library(op[o], p.r), p.r), st |-> p.st, bf |-> before] :
                p \in mailServer(store, op[o])}
        ELSE {})

MailListFolders(o) ==
  /\ \E n \in MailSteps(o, "imap_list_folders",
                        {[Fresh EXCEPT !.kind = "imap_list_folders",
                                       !.account = "onecom"]}) :
       /\ op' = [op EXCEPT ![o] = n.s]
       /\ store' = n.st
       /\ before' = n.bf
  /\ UNCHANGED <<crashed, registry, tree, last, net>>

MailListEmails(o) ==
  /\ \E n \in MailSteps(o, "imap_list_emails",
                        {[Fresh EXCEPT !.kind = "imap_list_emails",
                                       !.account = "onecom", !.folder = f,
                                       !.limit = l, !.criteria = c] :
                           f \in Folders, l \in 0..MaxLimit, c \in {"ALL", "UNSEEN"}}) :
       /\ op' = [op EXCEPT ![o] = n.s]
       /\ store' = n.st
       /\ before' = n.bf
  /\ UNCHANGED <<crashed, registry, tree, last, net>>

MailMoveEmail(o) ==
  /\ \E n \in MailSteps(o, "imap_move_email",
                        {[Fresh EXCEPT !.kind = "imap_move_email",
                                       !.account = "onecom", !.folder = f,
                                       !.target = t, !.uid = u] :
                           f \in Folders, t \in Folders, u \in Uids}) :
       /\ op' = [op EXCEPT ![o] = n.s]
       /\ store' = n.st
       /\ before' = n.bf
  /\ UNCHANGED <<crashed, registry, tree, last, net>>

MailMoveByMessageId(o) ==
  /\ \E n \in MailSteps(o, "imap_move_by_message_id",
                        {[Fresh EXCEPT !.kind = "imap_move_by_message_id",
                                       !.account = "onecom", !.folder = f,
                                       !.target = t, !.messageId = id] :
                           f \in Folders, t \in Folders, id \in MessageIds}) :
       /\ op' = [op EXCEPT ![o] = n.s]
       /\ store' = n.st
       /\ before' = n.bf
  /\ UNCHANGED <<crashed, registry, tree, last, net>>

MailDeleteEmail(o) ==
  /\ \E n \in MailSteps(o, "imap_delete_email",
                        {[Fresh EXCEPT !.kind = "imap_delete_email",
                                       !.account = "onecom", !.folder = f,
                                       !.uid = u] :
                           f \in Folders, u \in Uids}) :
       /\ op' = [op EXCEPT ![o] = n.s]
       /\ store' = n.st
       /\ before' = n.bf
  /\ UNCHANGED <<crashed, registry, tree, last, net>>

MailMarkUnseen(o) ==
  /\ \E n \in MailSteps(o, "imap_mark_unseen",
                        {[Fresh EXCEPT !.kind = "imap_mark_unseen",
                                       !.account = "onecom", !.folder = f,
                                       !.uids = l, !.all = all] :
                           f \in Folders, l \in UidLists, all \in BOOLEAN}) :
       /\ op' = [op EXCEPT ![o] = n.s]
       /\ store' = n.st
       /\ before' = n.bf
  /\ UNCHANGED <<crashed, registry, tree, last, net>>

InitMail ==
  /\ op = [o \in Callers |-> Fresh]
  /\ crashed = FALSE
  /\ config = accounts
  /\ apiKey = ""
  /\ listing = NoListing
  /\ other = NoOther
  /\ auth = NoAuth
  /\ boxes = <<>>
  /\ folders = NoFolders
  /\ store \in MailStores
  /\ before = store
  /\ last = NoMove
  /\ heap = <<>>
  /\ started = 0

NextMail ==
  \E o \in Callers :
    \/ MailListFolders(o)
    \/ MailListEmails(o)
    \/ MailMoveEmail(o)
    \/ MailMoveByMessageId(o)
    \/ MailDeleteEmail(o)
    \/ MailMarkUnseen(o)

SpecMail == InitMail /\ [][NextMail]_vars

----------------------------------------------------------------------------
(* The flag helpers on a connection that has a mailbox selected            *)
(* read-write: addFlags, and once it has resolved removeFlags with the     *)
(* same UIDs and flags.                                                    *)

Flags == {"\\Seen", "\\Flagged"}

(* INBOX holds up to MaxMsgs messages with any flags *)
FlagStores ==
  {[NoStore EXCEPT !["INBOX"] =
      [msgs |-> [i \in 1..n |-> [uid |-> i, messageId |-> i, flags |-> fl[i]]],
       next |-> n + 1]] :
     n \in 1..MaxMsgs, fl \in [1..MaxMsgs -> SUBSET Flags]}

(* a connection after connectImap and openMailbox(imap, folder, false) *)
Selected ==
  [Fresh EXCEPT !.imap = TRUE, !.sess = "ready", !.box = "rw", !.mode = "rw",
                !.pc = "selected"]

(* the promise of a flag helper settles *)
settle(s, r) ==
  [s EXCEPT !.pc = CASE rejects(r) -> "rejected"
                     [] s.pc = "addFlags" -> "added"
                     [] OTHER -> "removed"]

AddFlags(o) ==
  /\ \/ /\ op[o].pc = "selected"
        /\ \E uids \in SeqsUpTo(Uids, 1) \ {<<>>}, fl \in (SUBSET Flags) \ {{}} :
             op' = [op EXCEPT ![o] = addFlags(op[o], uids, fl)]
        /\ before' = store
        /\ UNCHANGED store
     \/ /\ op[o].pc = "addFlags"
        /\ \E p \in server(store, op[o]) :
             /\ op' = [op EXCEPT ![o] = settle(library(op[o], p.r), p.r)]
             /\ store' = p.st
        /\ UNCHANGED before
  /\ UNCHANGED <<crashed, registry, tree, last, net>>

RemoveFlags(o) ==
  /\ \/ /\ op[o].pc = "added"
        /\ op' = [op EXCEPT ![o] = removeFlags(op[o], op[o].cmds[1].arg, op[o].flags)]
        /\ UNCHANGED store
     \/ /\ op[o].pc = "delFlags"
        /\ \E p \in server(store, op[o]) :
             /\ op' = [op EXCEPT ![o] = settle(library(op[o], p.r), p.r)]
             /\ store' = p.st
  /\ UNCHANGED <<crashed, registry, tree, before, last, net>>

InitFlags ==
  /\ op = [o \in Callers |-> Selected]
  /\ crashed = FALSE
  /\ config = accounts
  /\ apiKey = ""
  /\ listing = NoListing
  /\ other = NoOther
  /\ auth = NoAuth
  /\ boxes = <<>>
  /\ folders = NoFolders
  /\ store \in FlagStores
  /\ before = store
  /\ last = NoMove
  /\ heap = <<>>
  /\ started = 0

NextFlags == \E o \in Callers : AddFlags(o) \/ RemoveFlags(o)

SpecFlags == InitFlags /\ [][NextFlags]_vars

----------------------------------------------------------------------------
(* Calls in progress at the same time.  Each Imap object is an entry of    *)
(* the heap; a call holds a reference to the one it works on, reads the    *)
(* state of the connection through the reference before each step and     *)
(* writes it back after.                                                   *)

MaxCalls == 3
ConcCallers == {"c1", "c2"}

(* an object shared by the calls: the one in use, when there is one *)
newImap_shared ==
  IF \E c \in DOMAIN heap : heap[c].sess \in {"connecting", "ready"}
  THEN CHOOSE c \in DOMAIN heap : heap[c].sess \in {"connecting", "ready"}
  ELSE Len(heap) + 1

(* an object taken from a pool: one that is closed, when there is one *)
newImap_pooled ==
  IF \E c \in DOMAIN heap : heap[c].sess = "closed"
  THEN CHOOSE c \in DOMAIN heap : heap[c].sess = "closed"
  ELSE Len(heap) + 1

(* new Imap({...}): an object that did not exist *)
newImap == Len(heap) + 1

(* the object c comes into the hands of call n *)
alloc(h, c, n) ==
  IF c > Len(h)
  THEN Append(h, [sess |-> "none", box |-> "none", mode |-> "none",
                  listener |-> FALSE, users |-> {n}])
  ELSE [h EXCEPT ![c].users = @ \cup {n}]

(* the state of the connection as the call finds it behind its reference *)
load(h, s) ==
  IF s.conn = 0 THEN s
  ELSE [s EXCEPT !.sess = h[s.conn].sess, !.box = h[s.conn].box,
                 !.mode = h[s.conn].mode, !.listener = h[s.conn].listener]

(* the state of the connection as the call leaves it *)
save(h, s) ==
  IF s.conn = 0 THEN h
  ELSE [h EXCEPT ![s.conn] = [@ EXCEPT !.sess = s.sess, !.box = s.box,
                                       !.mode = s.mode, !.listener = s.listener]]

(* a call begins, with the object createImapConnection gives it when the   *)
(* account is configured, or the call in progress goes on with a response  *)
ConcSteps(o, k, calls) ==
  (IF op[o].pc = "idle" /\ started < MaxCalls
   THEN {LET s2 == handle([c EXCEPT !.call = started + 1], NoResp)
         IN  IF s2.imap
             THEN [s |-> [s2 EXCEPT !.conn = newImap],
                   h |-> save(alloc(heap, newImap, started + 1),
                              [s2 EXCEPT !.conn = newImap]),
                   n |-> started + 1]
             ELSE [s |-> s2, h |-> heap, n |-> started + 1] : c \in calls}
   ELSE {})
  \cup
  (IF op[o].kind = k
   THEN {LET s2 == handle(library(load(heap, op[o]), r), r)
         IN  [s |-> s2, h |-> save(heap, s2), n |-> started] :
           r \in Responses(load(heap, op[o]), Uids)}
   ELSE {})

ConcListFolders(o) ==
  /\ ~crashed
  /\ \E n \in ConcSteps(o, "imap_list_folders",
                        {[Fresh EXCEPT !.kind = "imap_list_folders", !.account = a] :
                           a \in {"onecom", "nokey"}}) :
       /\ op' = [op EXCEPT ![o] = n.s]
       /\ heap' = n.h
       /\ started' = n.n
  /\ UNCHANGED <<crashed, registry, tree, mail>>

ConcMoveEmail(o) ==
  /\ ~crashed
  /\ \E n \in ConcSteps(o, "imap_move_email",
                        {[Fresh EXCEPT !.kind = "imap_move_email", !.account = a,
                                       !.uid = 1] :
                           a \in {"onecom", "nokey"}}) :
       /\ op' = [op EXCEPT ![o] = n.s]
       /\ heap' = n.h
       /\ started' = n.n
  /\ UNCHANGED <<crashed, registry, tree, mail>>

(* The connection of o emits 'error'.  With no listener left the event is  *)
(* thrown as an uncaught exception: the process ends, and with it every    *)
(* connection it holds.                                                    *)
ConcErrorEvent(o) ==
  /\ ~crashed
  /\ op[o].conn # 0
  /\ heap[op[o].conn].sess \in {"connecting", "ready"}
  /\ \E m \in Msgs :
       IF heap[op[o].conn].listener
       THEN /\ op' = [op EXCEPT ![o] = onError(load(heap, op[o]), m)]
            /\ heap' = save(heap, onError(load(heap, op[o]), m))
            /\ UNCHANGED crashed
       ELSE /\ op' = [op EXCEPT ![o].faults =
                         Append(@, [msg |-> m, at |-> "uncaught",
                                    n |-> Len(op[o].cmds)])]
            /\ heap' = [c \in DOMAIN heap |-> [heap[c] EXCEPT !.sess = "closed"]]
            /\ crashed' = TRUE
  /\ UNCHANGED <<registry, tree, mail, started>>

(* the caller has its report and can call again *)
ConcAgain(o) ==
  /\ ~crashed
  /\ op[o].pc = "done"
  /\ op' = [op EXCEPT ![o] = Fresh]
  /\ UNCHANGED <<crashed, aux>>

InitConc ==
  /\ op = [o \in ConcCallers |-> Fresh]
  /\ crashed = FALSE
  /\ config = accounts
  /\ apiKey = ""
  /\ listing = NoListing
  /\ other = NoOther
  /\ auth = NoAuth
  /\ boxes = <<>>
  /\ folders = NoFolders
  /\ store = NoStore
  /\ before = NoStore
  /\ last = NoMove
  /\ heap = <<>>
  /\ started = 0

NextConc ==
  \E o \in ConcCallers :
    \/ ConcListFolders(o)
    \/ ConcMoveEmail(o)
    \/ ConcErrorEvent(o)
    \/ ConcAgain(o)

SpecConc == InitConc /\ [][NextConc]_vars

----------------------------------------------------------------------------
(* Flattening every folder tree: getBoxes builds the tree from the LIST    *)
(* responses one folder at a time, each below a folder it has already      *)
(* built, and flattenMailboxes runs on the finished tree.                  *)

RECURSIVE Size(_)
Size(bs) ==
  IF bs = <<>> THEN 0 ELSE 1 + Size(Head(bs).children) + Size(Tail(bs))

(* the places of the tree a new folder can go to: the top level or below a *)
(* folder less than d levels down                                          *)
RECURSIVE ParentPaths(_, _)
ParentPaths(bs, d) ==
  {<<>>} \cup
  (IF d = 0 THEN {}
   ELSE UNION {{<<i>> \o p : p \in ParentPaths(bs[i].children, d - 1)} :
                 i \in DOMAIN bs})

RECURSIVE Siblings(_, _)
Siblings(bs, path) ==
  IF path = <<>> THEN bs ELSE Siblings(bs[Head(path)].children, Tail(path))

RECURSIVE insert(_, _, _)
insert(bs, path, box) ==
  IF path = <<>> THEN Append(bs, box)
  ELSE [bs EXCEPT ![Head(path)].children = insert(@, Tail(path), box)]

(* one LIST response: a folder that is new among its siblings *)
AddBox ==
  /\ folders = NoFolders
  /\ Size(boxes) < MaxNodes
  /\ \E path \in ParentPaths(boxes, MaxDepth - 1), n \in BoxNames, d \in Delims :
       /\ \A i \in DOMAIN Siblings(boxes, path) : Siblings(boxes, path)[i].name # n
       /\ boxes' = insert(boxes, path,
                          [name |-> n, delimiter |-> d, attribs |-> <<>>,
                           children |-> <<>>])
  /\ UNCHANGED <<op, crashed, registry, folders, mail, net>>

Flatten ==
  /\ folders = NoFolders
  /\ folders' = [done |-> TRUE, list |-> flattenMailboxes(boxes, <<>>)]
  /\ UNCHANGED <<op, crashed, registry, boxes, mail, net>>

NextFlatten == AddBox \/ Flatten

SpecFlatten == Init /\ [][NextFlatten]_vars

----------------------------------------------------------------------------
(* Properties of the session orchestration *)

Ops == DOMAIN op

Done(o) == op[o].pc = "done"

Names(s) == {s.cmds[i].name : i \in DOMAIN s.cmds}

Mutations == {"move", "addFlags", "expunge", "delFlags"}

(* s failed at command c: the library answered c with a fault *)
FailedAt(s, c) == \E i \in DOMAIN s.faults : s.faults[i].at = c

(* C1: the session an operation created is closed exactly once: imap.end() *)
(* is never called twice on it, and when the operation has returned its    *)
(* report the session has been closed.                                     *)
C1_ClosedExactlyOnce ==
  \A o \in Ops :
    /\ op[o].ends <= 1
    /\ Done(o) /\ op[o].cmds # <<>> => op[o].ends = 1 /\ op[o].sess = "closed"

(* an operation whose move failed after connect, select and search has     *)
(* returned with its session closed                                        *)
C1_Witness ==
  \E o \in Ops :
    /\ Done(o)
    /\ op[o].kind = "imap_move_by_message_id"
    /\ FailedAt(op[o], "move")
    /\ op[o].ends = 1

(* C2: no fault escapes an operation: the process never ends on an         *)
(* uncaught 'error' event, and every fault raised on the session of an     *)
(* operation that has returned (other than the failure of an item of a     *)
(* bulk move) is in its report, with success = false and the fault's       *)
(* message as the error.                                                   *)
C2_NoFaultEscapes ==
  /\ ~crashed
  /\ \A o \in Ops :
       Done(o) =>
         \A i \in DOMAIN op[o].faults :
           \/ op[o].kind = "imap_bulk_move" /\ op[o].faults[i].at = "move"
           \/ /\ op[o].report.success = FALSE
              /\ op[o].report.error = op[o].faults[i].msg

(* index in cmds of the move of item i of a bulk call: connect and openBox *)
(* come first                                                              *)
MoveCmd(i) == i + 2

(* the session of o was opened: connected and the mailbox selected *)
Opened(o) == op[o].box # "none"

(* C3: a bulk move of N <= 100 uids whose session was opened reports       *)
(* exactly N per-item entries, entry i for the i-th uid of the call, with  *)
(* succeeded + failed = N and succeeded the number of successful entries.  *)
C3_BulkReportShape ==
  \A o \in Ops :
    /\ Done(o)
    /\ op[o].kind = "imap_bulk_move"
    /\ Len(op[o].uids) <= MaxBulkItems
    /\ Opened(o)
    => LET rep == op[o].report
           N == Len(op[o].uids)
       IN  /\ Len(rep.results) = N
           /\ \A i \in 1..N : rep.results[i].uid = op[o].uids[i]
           /\ rep.succeeded + rep.failed = N
           /\ rep.succeeded =
                Cardinality({i \in 1..N : rep.results[i].success})
           /\ rep.total = N

(* a bulk move has returned a report with both a moved and a failed item *)
C3_Witness ==
  \E o \in Ops :
    /\ Done(o)
    /\ op[o].kind = "imap_bulk_move"
    /\ Opened(o)
    /\ \E i, j \in DOMAIN op[o].report.results :
         /\ op[o].report.results[i].success
         /\ ~op[o].report.results[j].success

(* C4: the failure of an item of a bulk move does not end the call: when   *)
(* the call has returned, one move was issued for every uid of the list,   *)
(* in order, an item is recorded as failed with the fault's message        *)
(* exactly when its move failed, and the report says success.              *)
C4_BulkNeverAborts ==
  \A o \in Ops :
    /\ Done(o)
    /\ op[o].kind = "imap_bulk_move"
    /\ Opened(o)
    => LET s == op[o]
           N == Len(s.uids)
       IN  /\ s.report.success
           /\ Len(s.cmds) = MoveCmd(N)
           /\ \A i \in 1..N :
                /\ s.cmds[MoveCmd(i)].name = "move"
                /\ s.cmds[MoveCmd(i)].arg = <<s.uids[i]>>
           /\ Len(s.report.results) = N
           /\ \A f \in DOMAIN s.faults :
                s.faults[f].at = "move" =>
                  LET i == s.faults[f].n - 2
                  IN  /\ ~s.report.results[i].success
                      /\ s.report.results[i].error = s.faults[f].msg

(* a bulk move of two or more uids has returned after every move failed:   *)
(* the first failure was followed by further moves                         *)
C4_Witness ==
  \E o \in Ops :
    /\ Done(o)
    /\ op[o].kind = "imap_bulk_move"
    /\ Len(op[o].uids) >= 2
    /\ Len(op[o].report.results) = Len(op[o].uids)
    /\ \A i \in DOMAIN op[o].report.results : ~op[o].report.results[i].success

(* C5: a bulk move of more than 100 uids issues no command and fails; for  *)
(* a configured account the error is TooManyItems.                         *)
C5_TooManyItems ==
  \A o \in Ops :
    op[o].kind = "imap_bulk_move" /\ Len(op[o].uids) > MaxBulkItems
    => /\ op[o].cmds = <<>>
       /\ Done(o) => ~op[o].report.success
       /\ Done(o) /\ createImapConnection(op[o].account) # Throw
            => op[o].report.error = "TooManyItems"

(* the search of o was answered without a fault and matched nothing *)
SearchedNothing(o) ==
  /\ "search" \in Names(op[o])
  /\ ~FailedAt(op[o], "search")
  /\ op[o].pc # "search"
  /\ op[o].found = <<>>

(* C6: when the Message-ID search matches nothing, the operation has       *)
(* returned a failure report saying the message was not found, has issued  *)
(* no mutation command and has closed its session.                         *)
C6_NotFound ==
  \A o \in Ops :
    op[o].kind = "imap_move_by_message_id" /\ SearchedNothing(o)
    => /\ Done(o)
       /\ op[o].report.success = FALSE
       /\ op[o].report.error = NotFound
       /\ Names(op[o]) \cap Mutations = {}
       /\ op[o].ends = 1
       /\ op[o].sess = "closed"

(* a move by Message-ID whose search matched nothing has returned *)
C6_Witness ==
  \E o \in Ops :
    /\ op[o].kind = "imap_move_by_message_id"
    /\ SearchedNothing(o)
    /\ Done(o)

(* C7: a mutation command is issued only on a connection that is ready     *)
(* and has a mailbox selected read-write by an earlier openBox of the      *)
(* same operation.                                                         *)
C7_MutateOnlyReadWrite ==
  \A o \in Ops :
    \A i \in DOMAIN op[o].cmds :
      op[o].cmds[i].name \in Mutations
      => /\ op[o].cmds[i].sess = "ready"
         /\ op[o].cmds[i].box = "rw"
         /\ \E j \in 1..(i - 1) :
              /\ op[o].cmds[j].name = "openBox"
              /\ op[o].cmds[j].mode = "rw"
              /\ ~\E f \in DOMAIN op[o].faults :
                    op[o].faults[f].n = j /\ op[o].faults[f].at = "openBox"

(* an operation has issued the expunge of a delete after the flag command *)
C7_Witness ==
  \E o \in Ops : {"addFlags", "expunge"} \subseteq Names(op[o])

DataCmds == {"search", "fetch"} \cup Mutations

(* how far the session of s has come: no connection, connecting, ready,    *)
(* mailbox selected, closed                                                *)
Rank(s) ==
  CASE s.sess = "none" -> 0
    [] s.sess = "connecting" -> 1
    [] s.sess = "ready" /\ s.box = "none" -> 2
    [] s.sess = "ready" /\ s.box # "none" -> 3
    [] s.sess = "closed" -> 4

(* C8: a session only moves forward through idle, connecting, ready,       *)
(* mailbox selected and closed; a search, fetch or mutation is issued only *)
(* on a ready connection with a mailbox selected; on a closed session no   *)
(* command is issued.                                                      *)
C8_SessionOrder ==
  [][\A o \in Callers :
       LET s == op[o]
           t == op'[o]
       IN  /\ Rank(t) >= Rank(s)
           /\ s.sess = "closed" => t.cmds = s.cmds
           /\ \A i \in (DOMAIN t.cmds) \ (DOMAIN s.cmds) :
                /\ t.cmds[i].sess # "closed"
                /\ t.cmds[i].name \in DataCmds
                     => t.cmds[i].sess = "ready" /\ t.cmds[i].box # "none"]_vars

(* a listing has searched and fetched on its selected mailbox and closed *)
C8_Witness ==
  \E o \in Ops :
    /\ op[o].kind = "imap_list_emails"
    /\ {"search", "fetch"} \subseteq Names(op[o])
    /\ op[o].sess = "closed"

(* o has returned its report and its session, if it created one, is closed *)
Returned(o) == Done(o) /\ (op[o].cmds = <<>> \/ op[o].sess = "closed")

(* C9: when every command is answered, a started operation returns its     *)
(* report with the session closed, unless the process has ended before a   *)
(* pending command was answered; a closed session stays closed.            *)
C9_Terminates ==
  /\ \A o \in Callers : (op[o].pc # "idle") ~> (Returned(o) \/ crashed)
  /\ [][\A o \in Callers : op[o].sess = "closed" => op'[o].sess = "closed"]_vars

(* a delete has returned on the error path of its last step, session closed *)
C9_Witness ==
  \E o \in Ops :
    /\ Returned(o)
    /\ FailedAt(op[o], "expunge")
    /\ op[o].sess = "closed"

(* C10: when connect or the selection of the mailbox has failed, the       *)
(* operation has returned a failure report, the failed command is the last *)
(* one it issued, and its session is closed.                               *)
C10_AbortOnOpenFailure ==
  \A o \in Ops :
    \A f \in DOMAIN op[o].faults :
      op[o].faults[f].at \in {"connect", "openBox"}
      => /\ Done(o)
         /\ op[o].report.success = FALSE
         /\ Len(op[o].cmds) = op[o].faults[f].n
         /\ Names(op[o]) \cap DataCmds = {}
         /\ op[o].ends = 1
         /\ op[o].sess = "closed"

(* a move has returned after the selection of its source folder failed *)
C10_Witness ==
  \E o \in Ops :
    /\ op[o].kind = "imap_move_email"
    /\ FailedAt(op[o], "openBox")
    /\ Done(o)

----------------------------------------------------------------------------
(* Properties of the account registry *)

ListedKeys(l) == {l.accounts[i].key : i \in DOMAIN l.accounts}

(* C11: a key is in the listing of configured accounts exactly when both   *)
(* its user and its password are present, and exactly then                 *)
(* createImapConnection accepts it; every listing response names exactly   *)
(* those keys, and a tool called with any other key is rejected as not     *)
(* configured before it issues a command.                                  *)
C11_ConfiguredIffBoth ==
  \A k \in AccountKeys :
    LET listed == k \in ListedKeys([accounts |-> getConfiguredAccounts])
    IN  /\ listed <=> /\ k \in DOMAIN config
                      /\ Truthy(config[k].user)
                      /\ Truthy(config[k].password)
        /\ listed <=> createImapConnection(k) # Throw
        /\ listing # NoListing => (k \in ListedKeys(listing) <=> listed)
        /\ \A o \in Ops :
             op[o].account = k =>
               /\ listed <=> op[o].cmds # <<>>
               /\ ~listed => Done(o) /\ op[o].report.error = NotConfigured

(* a listing has named one key and left out a key that has only its user,  *)
(* and a tool called with that key has been rejected                       *)
C11_Witness ==
  \E k1, k2 \in DOMAIN config :
    /\ k1 \in ListedKeys(listing)
    /\ k2 \notin ListedKeys(listing)
    /\ Truthy(config[k2].user)
    /\ \E o \in Ops :
         /\ op[o].account = k2
         /\ op[o].report.error = NotConfigured

----------------------------------------------------------------------------
(* Properties of flattenMailboxes *)

(* the folder names of a full path, without the delimiters between them *)
NamesOf(path) == [i \in 1..((Len(path) + 1) \div 2) |-> path[2 * i - 1]]

(* the nodes of a tree in depth-first pre-order, siblings in the order the *)
(* server returned them, each node as the names from its root down to it   *)
RECURSIVE Walk(_, _)
Walk(bs, above) ==
  IF bs = <<>> THEN <<>>
  ELSE <<Append(above, Head(bs).name)>>
       \o Walk(Head(bs).children, Append(above, Head(bs).name))
       \o Walk(Tail(bs), above)

(* C12: flattenMailboxes returns one descriptor per node of the tree, in   *)
(* depth-first pre-order with the siblings in the order in which the       *)
(* server returned them.                                                   *)
C12_ServerOrder ==
  folders.done =>
    [i \in DOMAIN folders.list |-> NamesOf(folders.list[i].name)] = Walk(boxes, <<>>)

(* the node of the tree that the names from a root down to it lead to *)
RECURSIVE NodeAt(_, _)
NodeAt(bs, names) ==
  LET box == CHOOSE b \in {bs[i] : i \in DOMAIN bs} : b.name = Head(names)
  IN  IF Len(names) = 1 THEN box ELSE NodeAt(box.children, Tail(names))

Front(q) == SubSeq(q, 1, Len(q) - 1)

----------------------------------------------------------------------------
(* Properties of calls that follow one another on the same mailboxes *)

(* the Message-IDs of the emails a finished imap_list_emails returned *)
Listed(o) ==
  {op[o].report.emails[i].messageId : i \in DOMAIN op[o].report.emails}

(* o has listed every message of a folder with success, right after a move *)
(* of a message that was in its source folder reported success              *)
ListedAfterMove(o) ==
  /\ Done(o)
  /\ op[o].kind = "imap_list_emails"
  /\ op[o].report.success
  /\ op[o].criteria = "ALL"
  /\ last.kind \in {"imap_move_email", "imap_move_by_message_id"}
  /\ last.messageId # 0
  /\ last.from # last.to

(* C14: after imap_move_email or imap_move_by_message_id has reported      *)
(* success for a message from folder S to another folder F, a following    *)
(* imap_list_emails of F returns the message and a following               *)
(* imap_list_emails of S does not.                                         *)
C14_MoveThenList ==
  \A o \in Ops :
    ListedAfterMove(o) =>
      /\ op[o].folder = last.to => last.messageId \in Listed(o)
      /\ op[o].folder = last.from => last.messageId \notin Listed(o)

(* the target holds two messages and the list, limited to one, has         *)
(* returned the one that was moved                                         *)
C14_Witness ==
  \E o \in Ops :
    /\ ListedAfterMove(o)
    /\ op[o].folder = last.to
    /\ op[o].limit = 1
    /\ op[o].report.total = 2
    /\ Listed(o) = {last.messageId}

----------------------------------------------------------------------------
(* Properties of the flag helpers *)

(* addFlags and then removeFlags have both resolved *)
RoundTrip(o) == op[o].pc = "removed"

FlagsOf(st, uid) == ByUid(st["INBOX"], uid).flags

(* C15: when addFlags and then removeFlags with the same flags have        *)
(* resolved for a message that had none of these flags, the message has    *)
(* the flags it had before; the other messages keep theirs.                *)
C15_RoundTripWhenUnset ==
  \A o \in Ops :
    RoundTrip(o) =>
      \A u \in UidsIn(before["INBOX"]) :
        /\ u \in UidsIn(store["INBOX"])
        /\ (u \notin {op[o].cmds[1].arg[i] : i \in DOMAIN op[o].cmds[1].arg}
            \/ FlagsOf(before, u) \cap op[o].flags = {})
             => FlagsOf(store, u) = FlagsOf(before, u)

(* a round trip of \Flagged on a read message has left it read *)
C15_Witness ==
  \E o \in Ops :
    /\ RoundTrip(o)
    /\ op[o].flags = {"\\Flagged"}
    /\ \E u \in UidsIn(before["INBOX"]) :
         /\ op[o].cmds[1].arg = <<u>>
         /\ FlagsOf(before, u) = {"\\Seen"}
         /\ FlagsOf(store, u) = {"\\Seen"}

(* C15 as stated: the round trip restores the flags whether or not the     *)
(* message had the flag                                                    *)
C15_RoundTripAlways ==
  \A o \in Ops :
    RoundTrip(o) =>
      \A u \in UidsIn(before["INBOX"]) : FlagsOf(store, u) = FlagsOf(before, u)

----------------------------------------------------------------------------
(* Properties of calls in progress at the same time *)

InFlight(o) == op[o].pc \notin {"idle", "done"}

(* while the process lives, the connection a call holds is no other        *)
(* call's, and it is in the state the call left it in                      *)
OwnSession(o) ==
  (~crashed /\ op[o].conn # 0) =>
    /\ \A o2 \in ConcCallers \ {o} : op[o2].conn # op[o].conn
    /\ heap[op[o].conn].users = {op[o].call}
    /\ InFlight(o) =>
         /\ heap[op[o].conn].sess = op[o].sess
         /\ heap[op[o].conn].box = op[o].box

(* a step that is not o's leaves the connection of o as it was *)
Undisturbed(o) ==
  (op[o].conn # 0 /\ op'[o] = op[o]) => heap'[op[o].conn] = heap[op[o].conn]

(* C16: calls in progress at the same time work on connections of their    *)
(* own, and a close or a failure in one call never changes the connection  *)
(* of another.                                                             *)
C16_IndependentSessions ==
  /\ [](\A o \in ConcCallers : OwnSession(o))
  /\ [][\A o \in ConcCallers : Undisturbed(o)]_vars

----------------------------------------------------------------------------
(* Properties of the reports *)

(* C18: every report has the shape {success, echoed inputs, result or      *)
(* error}: a success report has no error, a failure report has an error    *)
(* message, and both echo the inputs of the call, the account among them.  *)
C18_UniformReports ==
  \A o \in Ops :
    Done(o) =>
      /\ op[o].report.success <=> op[o].report.error = None
      /\ "account" \in op[o].report.echo

(* the Message-IDs of the messages of a mailbox *)
IdsIn(box) == {box.msgs[i].messageId : i \in DOMAIN box.msgs}

(* the messages an imap_bulk_move was asked to move: those its UIDs named  *)
(* in the source folder when the call began                                *)
AskedToMove(o) ==
  {ByUid(before[op[o].folder], u).messageId :
     u \in {op[o].uids[i] : i \in DOMAIN op[o].uids} \cap UidsIn(before[op[o].folder])}

(* C19: after an imap_bulk_move from a folder to another, either every     *)
(* listed email is in the target folder or every listed email is still in  *)
(* the source folder.                                                      *)
C19_BulkAllOrNothing ==
  \A o \in Ops :
    (Done(o) /\ op[o].kind = "imap_bulk_move" /\ op[o].folder # op[o].target) =>
      \/ AskedToMove(o) \subseteq IdsIn(store[op[o].target])
      \/ AskedToMove(o) \subseteq IdsIn(store[op[o].folder])

(* the last n elements of q, all of q when it has fewer *)
LastN(q, n) ==
  LET k == IF n < Len(q) THEN n ELSE Len(q)
  IN  [i \in 1..k |-> q[Len(q) - k + i]]

(* C20: a successful imap_list_emails returns at most `limit` emails and   *)
(* at most as many as the search matched, reports the number of matches as *)
(* total, and returns the emails of the last `limit` UIDs of the search.   *)
C20_AtMostLimit ==
  \A o \in Ops :
    (Done(o) /\ op[o].kind = "imap_list_emails" /\ op[o].report.success) =>
      /\ op[o].report.returned <= op[o].limit
      /\ op[o].report.returned <= op[o].report.total
      /\ op[o].report.total = Len(op[o].found)
      /\ op[o].report.emails = LastN(op[o].found, op[o].limit)

----------------------------------------------------------------------------
(* Properties of the /mcp endpoint *)

(* the request of o presents key k: in its header, or in its query when it *)
(* has no header value                                                     *)
Presents(o, k) ==
  \/ op[o].xApiKey = k
  \/ op[o].xApiKey \in {Undefined, ""} /\ op[o].queryApiKey = k

(* C21: with an API key configured, a request to /mcp that does not        *)
(* present that key is answered with 401 and no handler runs for it: no    *)
(* connection is created, no command issued, nothing closed; a request     *)
(* that presents the key, and every request when no key is configured, is  *)
(* handled by its tool.                                                    *)
C21_ApiKeyGate ==
  \A o \in Ops :
    op[o].pc # "idle" =>
      IF apiKey # "" /\ ~Presents(o, apiKey)
      THEN /\ Done(o)
           /\ op[o].report.status = 401
           /\ ~op[o].report.success
           /\ ~op[o].imap /\ op[o].cmds = <<>> /\ op[o].ends = 0
      ELSE /\ op[o].report.status # 401
           /\ op[o].account = "onecom" => op[o].imap /\ op[o].cmds # <<>>

(* with key k1 configured, a request with another key in its header and k1 *)
(* in its query has been answered with 401                                 *)
C21_Witness ==
  \E o \in Ops :
    /\ apiKey = "k1"
    /\ op[o].xApiKey = "k2"
    /\ op[o].queryApiKey = "k1"
    /\ op[o].report.status = 401

----------------------------------------------------------------------------
(* Properties of two runs *)

Passwords == {"p", "q"}

(* a response that holds a password, as a field or as the value of one *)
Exposes(l) ==
  \E i \in DOMAIN l.accounts :
    \/ "password" \in DOMAIN l.accounts[i]
    \/ \E f \in DOMAIN l.accounts[i] : l.accounts[i][f] \in Passwords

(* the same accounts have a password in both runs *)
SamePasswordsSet ==
  \A k \in DOMAIN config : Truthy(config[k].password) <=> Truthy(other.config[k].password)

(* C22: no response of imap_list_accounts, GET /accounts or GET /version   *)
(* holds a password, and two runs that differ only in the values of the    *)
(* passwords, the same accounts having one, give identical responses.      *)
C22_PasswordsNotExposed ==
  /\ ~Exposes(listing) /\ ~Exposes(other.listing)
  /\ SamePasswordsSet => listing = other.listing

(* both runs have answered, with two accounts listed, and every password   *)
(* differs between them                                                    *)
C22_Witness ==
  /\ listing.route = "/accounts"
  /\ Len(listing.accounts) = 2
  /\ SamePasswordsSet
  /\ \A k \in DOMAIN config :
       Truthy(config[k].password) => config[k].password # other.config[k].password

(* C22 as stated: any two runs that differ only in passwords give          *)
(* identical responses                                                     *)
C22_AnyPasswords ==
  /\ ~Exposes(listing) /\ ~Exposes(other.listing)
  /\ listing = other.listing

----------------------------------------------------------------------------
(* Properties of one call against the mailboxes *)

(* the commands of s named c, in the order they were issued *)
Issued(s, c) == SelectSeq(s.cmds, LAMBDA x : x.name = c)

(* the UIDs in the source folder that carried the Message-ID of the call   *)
(* when the call began, ascending                                          *)
Hits(s) == Search(before[s.folder], <<"HEADER", "MESSAGE-ID", s.messageId>>)

(* C23: imap_move_by_message_id whose search finds k >= 1 messages issues  *)
(* exactly one move, for the first UID of the search result; when the move *)
(* succeeds that message has left the source folder and arrived in the     *)
(* target, the k-1 other matches are where they were, and the report names *)
(* the first UID.                                                          *)
C23_FirstMatchOnly ==
  \A o \in Ops :
    LET s == op[o]
        moves == Issued(s, "move")
    IN  s.kind = "imap_move_by_message_id" =>
          /\ Len(moves) <= 1
          /\ (Len(moves) = 1 \/ (Done(o) /\ s.report.success)) =>
               /\ Len(Hits(s)) >= 1
               /\ Len(moves) = 1
               /\ moves[1].arg = <<Hits(s)[1]>>
          /\ Done(o) /\ Len(Hits(s)) >= 1 /\ ~FailedAt(s, "openBox")
               /\ ~FailedAt(s, "search") => Len(moves) = 1
          /\ Done(o) /\ s.report.success =>
               /\ s.report.uid = Hits(s)[1]
               /\ \A i \in 2..Len(Hits(s)) :
                    /\ Hits(s)[i] \in UidsIn(store[s.folder])
                    /\ ByUid(store[s.folder], Hits(s)[i])
                         = ByUid(before[s.folder], Hits(s)[i])
               /\ Hits(s)[1] \notin UidsIn(store[s.folder])
               /\ Len(store[s.target].msgs)
                    = Len(before[s.target].msgs) + (IF s.target = s.folder THEN 0 ELSE 1)
               /\ store[s.target].msgs[Len(store[s.target].msgs)].messageId = s.messageId

(* two messages carried the Message-ID, the call moved one and has         *)
(* reported success                                                        *)
C23_Witness ==
  \E o \in Ops :
    /\ op[o].kind = "imap_move_by_message_id"
    /\ Done(o) /\ op[o].report.success
    /\ Len(Hits(op[o])) = 2
    /\ op[o].target # op[o].folder

(* the message the call names is in its folder and carries \Deleted *)
MarkedDeleted(s) ==
  /\ s.uid \in UidsIn(store[s.folder])
  /\ "\\Deleted" \in ByUid(store[s.folder], s.uid).flags

(* C24: imap_delete_email first adds \Deleted to the message and then      *)
(* expunges.  The expunge is issued only once the flag has been added.     *)
(* When adding the flag fails, no expunge is issued and the call reports   *)
(* failure; when the expunge fails, the message stays in its folder        *)
(* carrying \Deleted, nothing takes the flag off again, and the call       *)
(* reports failure.                                                        *)
C24_FlagThenExpunge ==
  \A o \in Ops :
    LET s == op[o]
        n == Len(s.cmds)
        there == s.uid \in UidsIn(before[s.folder])
    IN  s.kind = "imap_delete_email" =>
          /\ \A i \in DOMAIN s.cmds :
               s.cmds[i].name = "expunge" =>
                 /\ i > 1
                 /\ s.cmds[i - 1].name = "addFlags"
                 /\ s.cmds[i - 1].arg = <<s.uid>>
                 /\ ~FailedAt(s, "addFlags")
          /\ Len(Issued(s, "addFlags")) <= 1 /\ Len(Issued(s, "expunge")) <= 1
          /\ "delFlags" \notin Names(s)
          /\ s.pc = "expunge" /\ there => MarkedDeleted(s)
          /\ FailedAt(s, "addFlags") =>
               /\ Done(o) /\ ~s.report.success /\ s.report.error # None
               /\ "expunge" \notin Names(s)
               /\ store = before
          /\ FailedAt(s, "expunge") =>
               /\ Done(o) /\ ~s.report.success /\ s.report.error # None
               /\ s.cmds[n].name = "expunge"
               /\ there => MarkedDeleted(s)
               /\ store = StoreFlags(before, s.folder, <<s.uid>>, {"\\Deleted"}, {})
          /\ Done(o) /\ s.report.success =>
               /\ Names(s) = {"connect", "openBox", "addFlags", "expunge"}
               /\ s.uid \notin UidsIn(store[s.folder])

(* the flag was added to a message that did not carry it, the expunge      *)
(* failed and the call has reported that                                   *)
C24_Witness ==
  \E o \in Ops :
    /\ op[o].kind = "imap_delete_email"
    /\ Done(o) /\ FailedAt(op[o], "expunge")
    /\ op[o].uid \in UidsIn(before[op[o].folder])
    /\ "\\Deleted" \notin ByUid(before[op[o].folder], op[o].uid).flags
    /\ MarkedDeleted(op[o])

(* the messages of box that arrived after the call began and carry the     *)
(* Message-ID id                                                           *)
Arrived(s, id) ==
  {i \in DOMAIN store[s.target].msgs :
     /\ store[s.target].msgs[i].uid >= before[s.target].next
     /\ store[s.target].msgs[i].messageId = id}

(* C25: when imap_move_email is carried out as COPY, \Deleted, EXPUNGE and *)
(* fails after the COPY and before the EXPUNGE has removed the message,    *)
(* the message is in both folders: the copy in the target, the original    *)
(* still in the source.  The handler issues no command after the failed    *)
(* move, so nothing is rolled back, and it reports the failure.            *)
C25_NoRollback ==
  \A o \in Ops :
    LET s == op[o]
        n == Len(s.cmds)
    IN  s.kind = "imap_move_email" /\ FailedAt(s, "move") =>
          /\ Done(o) /\ ~s.report.success /\ s.report.error # None
          /\ s.cmds[n].name = "move" /\ s.cmds[n].arg = <<s.uid>>
          /\ Len(Issued(s, "move")) = 1
          /\ s.ends = 1
          /\ s.uid \in UidsIn(before[s.folder]) =>
               /\ s.uid \in UidsIn(store[s.folder])
               /\ store # before =>
                    Arrived(s, ByUid(before[s.folder], s.uid).messageId) # {}

(* the move failed after its COPY: the call has reported failure and the   *)
(* message is in the source and in the target                              *)
C25_Witness ==
  \E o \in Ops :
    /\ op[o].kind = "imap_move_email"
    /\ Done(o) /\ FailedAt(op[o], "move")
    /\ op[o].target # op[o].folder
    /\ op[o].uid \in UidsIn(store[op[o].folder])
    /\ Arrived(op[o], ByUid(store[op[o].folder], op[o].uid).messageId) # {}

(* C29: imap_delete_email(folder, uid) removes no message other than uid   *)
(* from the folder, also when other messages of the folder carry \Deleted  *)
(* already, and leaves every other folder as it was.                       *)
C29_DeletesOnlyUid ==
  \A o \in Ops :
    LET s == op[o]
    IN  s.kind = "imap_delete_email" =>
          /\ UidsIn(before[s.folder]) \ {s.uid} \subseteq UidsIn(store[s.folder])
          /\ \A f \in Folders \ {s.folder} : store[f] = before[f]

(* the call takes its targets from a search for ALL *)
SearchesAll(s) == s.all \/ Len(s.uids) = 0

(* the targets of an imap_mark_unseen call *)
Targets(s) ==
  IF SearchesAll(s) THEN Search(before[s.folder], <<"ALL">>) ELSE s.uids

(* C28: imap_mark_unseen issues at most one flag command per call.  Its    *)
(* targets are the result of a search for ALL when all is true or uids is  *)
(* absent or empty, and the given uids otherwise.  With no target it        *)
(* reports success with count 0 and issues no flag command; with at least   *)
(* one it issues exactly one command, which removes \Seen from all the      *)
(* targets, and reports their number.                                       *)
C28_OneFlagCommand ==
  \A o \in Ops :
    LET s == op[o]
        dels == Issued(s, "delFlags")
    IN  s.kind = "imap_mark_unseen" =>
          /\ Len(dels) <= 1
          /\ Names(s) \cap {"addFlags", "move", "expunge"} = {}
          /\ "search" \in Names(s) => SearchesAll(s)
          /\ Len(dels) = 1 =>
               /\ Len(Targets(s)) >= 1
               /\ dels[1].arg = Targets(s)
               /\ s.flags = {"\\Seen"}
               /\ SearchesAll(s) <=> "search" \in Names(s)
          /\ Done(o) /\ s.report.success =>
               /\ s.report.count = Len(Targets(s))
               /\ Len(dels) = IF Len(Targets(s)) = 0 THEN 0 ELSE 1
               /\ store = StoreFlags(before, s.folder, Targets(s), {}, {"\\Seen"})

(* all is true and uids names one message: the search found two, and the   *)
(* call has marked both                                                    *)
C28_Witness ==
  \E o \in Ops :
    /\ op[o].kind = "imap_mark_unseen"
    /\ Done(o) /\ op[o].report.success
    /\ op[o].all /\ Len(op[o].uids) = 1
    /\ op[o].report.count = 2
    /\ store # before

Listings == {"imap_list_emails", "imap_list_folders"}

(* C30: imap_list_emails and imap_list_folders leave every mailbox as it   *)
(* is, on success and on every error path: no step of such a call changes  *)
(* a mailbox, the call issues no move, flag or expunge command, and        *)
(* imap_list_emails selects its folder read-only (imap_list_folders        *)
(* selects none).                                                          *)
C30_ListingsChangeNothing ==
  [][\A o \in Ops :
       op'[o].kind \in Listings =>
         /\ store' = store
         /\ Names(op'[o]) \cap Mutations = {}
         /\ \A i \in DOMAIN op'[o].cmds :
              op'[o].cmds[i].name = "openBox" =>
                /\ op'[o].kind = "imap_list_emails"
                /\ op'[o].cmds[i].mode = "ro"
         /\ op'[o].box # "rw"]_vars

(* a listing of a folder selected read-only has returned two messages *)
C30_Witness ==
  \E o \in Ops :
    /\ op[o].kind = "imap_list_emails"
    /\ Done(o)
    /\ store = before
    /\ op[o].box = "ro"
    /\ op[o].report.success /\ op[o].report.returned = 2

----------------------------------------------------------------------------
(* Properties of a call for an account that cannot be used *)

Tools ==
  {"imap_list_folders", "imap_list_emails", "imap_move_email",
   "imap_move_by_message_id", "imap_delete_email", "imap_bulk_move",
   "imap_mark_unseen"}

(* the key is unknown, or its entry lacks the user or the password *)
Incomplete(a) ==
  \/ a \notin DOMAIN config
  \/ config[a].user \in {Undefined, ""}
  \/ config[a].password \in {Undefined, ""}

(* C27: a tool call that names an unknown key or an account without user   *)
(* or password ends at once with a failure report that says the account is *)
(* not configured, and opens no connection: it issues no connect, select   *)
(* or other command, and it does not close a connection either.            *)
C27_NotConfiguredNoConnection ==
  \A o \in Ops :
    LET s == op[o]
    IN  s.kind \in Tools /\ Incomplete(s.account) =>
          /\ Done(o)
          /\ ~s.report.success /\ s.report.error = NotConfigured
          /\ ~s.imap /\ s.sess = "none" /\ ~s.listener
          /\ s.cmds = <<>>
          /\ s.ends = 0

(* a move was asked for an account without password and has been refused  *)
C27_Witness ==
  \E o \in Ops :
    /\ op[o].kind = "imap_move_email"
    /\ op[o].account = "gmx"
    /\ Done(o) /\ op[o].report.error = NotConfigured

----------------------------------------------------------------------------
(* Properties of the order of the commands of a session *)

(* the command the call waits for: the last one it issued *)
Pending(s) == s.pc = s.cmds[Len(s.cmds)].name

(* C26: within a session at most one command is in flight.  A step of a    *)
(* call issues at most one command, it issues it when the call has just    *)
(* begun or with the response to the command issued before, and then       *)
(* waits for that command alone.  imap_bulk_move issues the move of item   *)
(* i+1 only when the move of item i has completed and its outcome is       *)
(* recorded, and it issues the moves in the order of its input.            *)
C26_OneCommandInFlight ==
  [][\A o \in Ops :
       LET s == op[o]
           t == op'[o]
           moves == Issued(t, "move")
       IN  /\ Len(t.cmds) <= Len(s.cmds) + 1
           /\ Len(t.cmds) = Len(s.cmds) + 1 =>
                /\ SubSeq(t.cmds, 1, Len(s.cmds)) = s.cmds
                /\ Pending(t)
                /\ s.cmds = <<>> \/ Pending(s)
                /\ s.cmds = <<>> <=> s.pc = "idle"
           /\ Len(t.cmds) = Len(s.cmds) /\ t.cmds # <<>> /\ ~Pending(t) =>
                t.pc = "done"
           /\ t.kind = "imap_bulk_move" =>
                /\ \A j \in DOMAIN moves : moves[j].arg = <<t.uids[j]>>
                /\ \A j \in DOMAIN t.results : t.results[j].uid = t.uids[j]
                /\ Len(t.results)
                     = Len(moves) - (IF t.pc = "move" THEN 1 ELSE 0)]_vars

(* a bulk move of UIDs 2 and 1 has issued both moves, the first of which   *)
(* failed                                                                  *)
C26_Witness ==
  \E o \in Ops :
    /\ op[o].kind = "imap_bulk_move"
    /\ op[o].uids = <<2, 1>>
    /\ Done(o)
    /\ Len(Issued(op[o], "move")) = 2
    /\ ~op[o].results[1].success

----------------------------------------------------------------------------
(* Properties of requireApiKey *)

(* the key:user entries of MCP_API_KEYS, each as its parts *)
MultiEntries ==
  IF ToBoolean(auth.env.MCP_API_KEYS)
  THEN LET es == split(auth.env.MCP_API_KEYS.s, ",")
       IN  [i \in DOMAIN es |-> split(trim(es[i]), ":")]
  ELSE <<>>

(* the keys of the multi-key entries, and all configured keys *)
MultiKeys == {MultiEntries[i][1] : i \in DOMAIN MultiEntries} \ {<<>>}
ConfiguredKeys ==
  MultiKeys \cup (IF ToBoolean(auth.env.MCP_API_KEY)
                  THEN {auth.env.MCP_API_KEY.s} ELSE {})

(* the user of a configured key: that of its multi-key entry (the last one *)
(* when the key is listed more than once), anonymous for an entry without  *)
(* a user, admin for the single key that is not a multi-key                *)
UserOf(k) ==
  IF k \in MultiKeys
  THEN LET i == CHOOSE j \in DOMAIN MultiEntries :
                  /\ MultiEntries[j][1] = k
                  /\ \A h \in DOMAIN MultiEntries : MultiEntries[h][1] = k => h <= j
           e == MultiEntries[i]
       IN  IF Len(e) >= 2 /\ e[2] # <<>> THEN e[2] ELSE anonymous
  ELSE admin

(* the key the request gives: its x-api-key header, or its api_key query   *)
(* value when it has no header or an empty one                             *)
Given == IF ToBoolean(auth.req.header) THEN auth.req.header ELSE auth.req.query

(* the request gives one of the configured keys *)
GivesConfiguredKey == Given.t = "string" /\ Given.s \in ConfiguredKeys

(* C31: requireApiKey calls next if and only if no API key is configured,  *)
(* with req.apiUser 'dev-mode', or the key given in the x-api-key header   *)
(* or the api_key query is a configured key, with req.apiUser the user of  *)
(* that key; every other request is answered with 401 and next is not      *)
(* called.                                                                 *)
C31_KeyOrUnauthorized ==
  auth.served =>
    IF ConfiguredKeys = {}
    THEN auth.out.next /\ auth.out.status = 0 /\ auth.out.apiUser = Str(devMode)
    ELSE IF GivesConfiguredKey
    THEN auth.out.next /\ auth.out.status = 0
         /\ auth.out.apiUser = Str(UserOf(Given.s))
    ELSE ~auth.out.next /\ auth.out.status = 401

(* the same for the requests whose api_key query value is not an array *)
C31_ForStringKeys ==
  auth.served /\ Given.t # "array" => C31_KeyOrUnauthorized

(* a key listed twice in MCP_API_KEYS, which is also the single key, was   *)
(* given in the query under an empty header and let through                *)
C31_Witness ==
  /\ auth.served /\ auth.out.next
  /\ auth.req.header = Str(<<>>) /\ auth.req.query = Str(<<"k">>)
  /\ Len(MultiEntries) = 2
  /\ \A i \in DOMAIN MultiEntries : MultiEntries[i][1] = <<"k">>
  /\ auth.env.MCP_API_KEY = Str(<<"k">>)

====
